---- MODULE Spec2Model ----
(***************************************************************************)
(* SLaNg math library (slang-math.js): terms, polynomials, fractions,      *)
(* evaluation, differentiation, integration, simplification, expansion.    *)
(*                                                                         *)
(* Term objects live on a heap (a sequence; the address of an object is    *)
(* its index), so that sharing of a term object between an argument and a  *)
(* result, and writes to a term object, are visible.  Arrays and the       *)
(* fraction / polynomial wrapper objects are values: the library never     *)
(* writes to an array or wrapper it did not create in the same call.       *)
(*                                                                         *)
(* A JavaScript number is a pair <<n, d>>: the rational n/d in lowest      *)
(* terms when d > 0, and for d = 0 the non-finite values Infinity (n = 1), *)
(* -Infinity (n = -1) and NaN (n = 0).  Negative zero is not modelled.     *)
(* A triple <<n, d, 1>> is the number (n/d) * 10^-11, for the coefficients *)
(* around the epsilon 10^-10 of simplifyPolynomial.                        *)
(***************************************************************************)
EXTENDS Integers, Sequences, FiniteSets, TLC

VARIABLES
    heap,   \* the term objects; the address of a term is its index
    heap0,  \* the heap when the current call was made
    world,  \* the caller's own arrays of terms: [P, Q], as addresses
    pc,     \* "idle", "returned" (the call returned or threw), "mutated"
    call,   \* the operation called and its arguments
    res     \* what the call returned or threw

vars == <<heap, heap0, world, pc, call, res>>

\* ------------------------------------------------------------------------
\* Numbers
\* ------------------------------------------------------------------------
Abs(i) == IF i < 0 THEN -i ELSE i

Sign(i) == IF i < 0 THEN -1 ELSE IF i = 0 THEN 0 ELSE 1

RECURSIVE Euclid(_, _)
Euclid(a, b) == IF b = 0 THEN a ELSE Euclid(b, a % b)

\* the number n/d for d # 0, in lowest terms with a positive denominator
Num(n, d) ==
    LET g == Euclid(Abs(n), Abs(d))
    IN  <<Sign(d) * (n \div g), Abs(d) \div g>>

Int2Num(i) == <<i, 1>>

Zero == <<0, 1>>

One == <<1, 1>>

NaN == <<0, 0>>

IsFinite(a) == a[2] # 0

IsNaN(a) == a = NaN

\* A number too small for a pair: <<n, d, 1>> is (n/d) * 10^-11, n # 0.
\* Scaled(p) is p * 10^-11 for a pair p.
Scaled(p) == IF p[1] = 0 \/ p[2] = 0 THEN p ELSE <<p[1], p[2], 1>>

\* a result that neither form of number can hold: evaluation stops
OutOfRange(a, b) == CHOOSE n \in {} : n = <<a, b>>

\* a + b
RECURSIVE NAdd(_, _)
NAdd(a, b) ==
    IF Len(a) = 3 /\ Len(b) = 3
    THEN Scaled(NAdd(<<a[1], a[2]>>, <<b[1], b[2]>>))
    ELSE IF Len(a) = 3
    THEN (IF b = Zero THEN a ELSE IF ~IsFinite(b) THEN b ELSE OutOfRange(a, b))
    ELSE IF Len(b) = 3
    THEN (IF a = Zero THEN b ELSE IF ~IsFinite(a) THEN a ELSE OutOfRange(a, b))
    ELSE IF IsNaN(a) \/ IsNaN(b) THEN NaN
    ELSE IF ~IsFinite(a) /\ ~IsFinite(b) THEN (IF a = b THEN a ELSE NaN)
    ELSE IF ~IsFinite(a) THEN a
    ELSE IF ~IsFinite(b) THEN b
    ELSE Num(a[1] * b[2] + b[1] * a[2], a[2] * b[2])

\* a * b
RECURSIVE NMul(_, _)
NMul(a, b) ==
    IF Len(a) = 3 /\ Len(b) = 3 THEN OutOfRange(a, b)
    ELSE IF Len(a) = 3 THEN Scaled(NMul(<<a[1], a[2]>>, b))
    ELSE IF Len(b) = 3 THEN Scaled(NMul(a, <<b[1], b[2]>>))
    ELSE IF IsNaN(a) \/ IsNaN(b) THEN NaN
    ELSE IF ~IsFinite(a) \/ ~IsFinite(b)
         THEN <<Sign(a[1]) * Sign(b[1]), 0>>
    ELSE Num(a[1] * b[1], a[2] * b[2])

NNeg(a) == [a EXCEPT ![1] = -a[1]]

NSub(a, b) == NAdd(a, NNeg(b))

\* a / b
RECURSIVE NDiv(_, _)
NDiv(a, b) ==
    IF Len(a) = 3 /\ Len(b) = 3 THEN NDiv(<<a[1], a[2]>>, <<b[1], b[2]>>)
    ELSE IF Len(a) = 3 THEN Scaled(NDiv(<<a[1], a[2]>>, b))
    ELSE IF Len(b) = 3
    THEN (IF a = Zero \/ ~IsFinite(a) THEN NDiv(a, <<b[1], b[2]>>)
          ELSE OutOfRange(a, b))
    ELSE IF IsNaN(a) \/ IsNaN(b) THEN NaN
    ELSE IF ~IsFinite(b) THEN (IF IsFinite(a) THEN Zero ELSE NaN)
    ELSE IF ~IsFinite(a) THEN <<a[1] * (IF b[1] < 0 THEN -1 ELSE 1), 0>>
    ELSE IF b[1] = 0 THEN <<Sign(a[1]), 0>>
    ELSE Num(a[1] * b[2], a[2] * b[1])

\* Math.pow(b, e) for an integer exponent e
RECURSIVE NPow(_, _)
NPow(b, e) ==
    IF e = 0 THEN One
    ELSE IF e < 0 THEN NDiv(One, NPow(b, -e))
    ELSE NMul(b, NPow(b, e - 1))

\* ------------------------------------------------------------------------
\* Term objects.  var is the object's own-property list in insertion order
\* (pairs <<name, power>>); hasVar is FALSE when the term has no var field.
\* ------------------------------------------------------------------------
Vars == {"x", "y"}

Term(c, hv, vs) == [coeff |-> c, hasVar |-> hv, var |-> vs]

Keys(vs) == {vs[i][1] : i \in 1..Len(vs)}

Has(vs, v) == v \in Keys(vs)

\* vs[v]
Get(vs, v) == vs[CHOOSE i \in 1..Len(vs) : vs[i][1] = v][2]

\* vs[v] = p : an existing key keeps its place, a new key is appended
Put(vs, v, p) ==
    IF Has(vs, v)
    THEN [i \in 1..Len(vs) |-> IF vs[i][1] = v THEN <<v, p>> ELSE vs[i]]
    ELSE Append(vs, <<v, p>>)

\* delete vs[v]
Delete(vs, v) == SelectSeq(vs, LAMBDA e : e[1] # v)

\* Operations that build objects return [h |-> the heap after the call,
\* r |-> the returned value, err |-> the exception thrown or "none"].
\* A term is returned as its address, a polynomial as the sequence of the
\* addresses of its terms, a fraction as a Fraction of such sequences.
\* An exception thrown by a callee ends the caller with that exception.
Ret(h, r) == [h |-> h, r |-> r, err |-> "none"]

Raise(h, r, e) == [h |-> h, r |-> r, err |-> e]

\* the statements F that follow a call with outcome t: they run on what the
\* call returned, unless it threw
Then(t, F(_)) == IF t.err # "none" THEN t ELSE F(t)

\* the element result t followed by the results rest of the later elements
Cons(t, rest) == Then(rest, LAMBDA s : Ret(s.h, <<t.r>> \o s.r))

\* allocation of a new object
Alloc(h, t) == Ret(Append(h, t), Len(h) + 1)

deepClone(h, a) == Alloc(h, h[a])

\* createTerm(coeff, vars): vars is copied; no var field when vars is empty
createTerm(h, c, vs) == Alloc(h, Term(c, Len(vs) > 0, vs))

\* denominators: a number, or a polynomial (the addresses of its terms)
Scalar(n) == [tag |-> "number", n |-> n, terms |-> <<>>]

PolyDeno(ts) == [tag |-> "poly", n |-> Zero, terms |-> ts]

Fraction(numi, deno) == [numi |-> numi, deno |-> deno]

hasSimpleDenominator(fraction) == fraction.deno.tag = "number"

\* the placeholder where a call threw and returned nothing
NoFraction == Fraction(<<>>, Scalar(One))

\* ------------------------------------------------------------------------
\* Evaluation.  values is a function from the bound variables to numbers.
\* An evaluation returns [v |-> number, err |-> the exception or "none"].
\* ------------------------------------------------------------------------
Ok(v) == [v |-> v, err |-> "none"]

Throw(e) == [v |-> NaN, err |-> e]

\* a variable without a value counts as 1 instead of being an error
RECURSIVE evalEntriesMissingAsOne(_, _, _)
evalEntriesMissingAsOne(vs, values, result) ==
    IF vs = <<>> THEN Ok(result)
    ELSE IF Head(vs)[1] \notin DOMAIN values
    THEN evalEntriesMissingAsOne(Tail(vs), values, result)
    ELSE evalEntriesMissingAsOne(Tail(vs), values,
                                 NMul(result,
                                      NPow(values[Head(vs)[1]], Head(vs)[2])))

RECURSIVE evalEntries(_, _, _)
evalEntries(vs, values, result) ==
    IF vs = <<>> THEN Ok(result)
    ELSE IF Head(vs)[1] \notin DOMAIN values THEN Throw("MissingVariable")
    ELSE evalEntries(Tail(vs), values,
                     NMul(result, NPow(values[Head(vs)[1]], Head(vs)[2])))

evaluateTerm(h, a, values) ==
    IF h[a].hasVar THEN evalEntries(h[a].var, values, h[a].coeff)
    ELSE Ok(h[a].coeff)

RECURSIVE evalTerms(_, _, _, _)
evalTerms(h, terms, values, sum) ==
    IF terms = <<>> THEN Ok(sum)
    ELSE Then(evaluateTerm(h, Head(terms), values),
              LAMBDA t : evalTerms(h, Tail(terms), values, NAdd(sum, t.v)))

evaluatePolynomial(h, terms, values) == evalTerms(h, terms, values, Zero)

evaluateFraction(h, fraction, values) ==
    Then(evaluatePolynomial(h, fraction.numi, values),
         LAMBDA numeratorSum :
             IF hasSimpleDenominator(fraction)
             THEN Ok(NDiv(numeratorSum.v, fraction.deno.n))
             ELSE Then(evaluatePolynomial(h, fraction.deno.terms, values),
                       LAMBDA denominatorSum :
                           Ok(NDiv(numeratorSum.v, denominatorSum.v))))

RECURSIVE evalFractions(_, _, _, _)
evalFractions(h, product, values, result) ==
    IF product = <<>> THEN Ok(result)
    ELSE Then(evaluateFraction(h, Head(product), values),
              LAMBDA f : evalFractions(h, Tail(product), values,
                                       NMul(result, f.v)))

evaluateProduct(h, product, values) == evalFractions(h, product, values, One)

RECURSIVE evalProducts(_, _, _, _)
evalProducts(h, equation, values, result) ==
    IF equation = <<>> THEN Ok(result)
    ELSE Then(evaluateProduct(h, Head(equation), values),
              LAMBDA p : evalProducts(h, Tail(equation), values,
                                      NAdd(result, p.v)))

evaluateEquation(h, equation, values) == evalProducts(h, equation, values, Zero)

\* ------------------------------------------------------------------------
\* Construction, integration, differentiation, polynomial arithmetic
\* ------------------------------------------------------------------------
\* the array's terms kept as they are, not copied
cloneTermsShared(h, terms) == Ret(h, terms)

\* deepClone of an array of terms
RECURSIVE cloneTerms(_, _)
cloneTerms(h, terms) ==
    IF terms = <<>> THEN Ret(h, <<>>)
    ELSE Then(deepClone(h, Head(terms)),
              LAMBDA c : Cons(c, cloneTerms(c.h, Tail(terms))))

\* createFraction(numiTerms, denoTerms): denoTerms is a number, an array of
\* terms or a polynomial object; every term is deep-cloned
createFraction(h, numiTerms, denoTerms) ==
    Then(cloneTerms(h, numiTerms),
         LAMBDA n :
             IF denoTerms.tag = "number"
             THEN Ret(n.h, Fraction(n.r, Scalar(denoTerms.n)))
             ELSE Then(cloneTerms(n.h, denoTerms.terms),
                       LAMBDA d : Ret(d.h, Fraction(n.r, PolyDeno(d.r)))))

\* term.var?.[indvar] ?? 0
PowerOf(t, indvar) ==
    IF t.hasVar /\ Has(t.var, indvar) THEN Get(t.var, indvar) ELSE 0

\* the power rule with the coefficient divided but the power not incremented
integrateTermKeepPower(h, a, indvar) ==
    Then(deepClone(h, a),
         LAMBDA c :
             LET newTerm == c.h[c.r]
                 power == PowerOf(newTerm, indvar)
             IN  IF power = -1 THEN Raise(c.h, 0, "LogarithmicIntegral")
                 ELSE Ret([c.h EXCEPT ![c.r] =
                               Term(NDiv(newTerm.coeff, Int2Num(power + 1)),
                                    TRUE, Put(newTerm.var, indvar, power))],
                          c.r))

integrateTerm(h, a, indvar) ==
    Then(deepClone(h, a),
         LAMBDA c :
             LET newTerm == c.h[c.r]
                 power == PowerOf(newTerm, indvar)
             IN  IF power = -1 THEN Raise(c.h, 0, "LogarithmicIntegral")
                 ELSE Ret([c.h EXCEPT ![c.r] =
                               Term(NDiv(newTerm.coeff, Int2Num(power + 1)),
                                    TRUE, Put(newTerm.var, indvar, power + 1))],
                          c.r))

\* a term that cannot be integrated is left out of the result
RECURSIVE integrateTermsSkipFailing(_, _, _)
integrateTermsSkipFailing(h, terms, indvar) ==
    IF terms = <<>> THEN Ret(h, <<>>)
    ELSE IF integrateTerm(h, Head(terms), indvar).err # "none"
    THEN integrateTermsSkipFailing(h, Tail(terms), indvar)
    ELSE Then(integrateTerm(h, Head(terms), indvar),
              LAMBDA t : Cons(t, integrateTermsSkipFailing(t.h, Tail(terms),
                                                           indvar)))

RECURSIVE integrateTerms(_, _, _)
integrateTerms(h, terms, indvar) ==
    IF terms = <<>> THEN Ret(h, <<>>)
    ELSE Then(integrateTerm(h, Head(terms), indvar),
              LAMBDA t : Cons(t, integrateTerms(t.h, Tail(terms), indvar)))

integratePolynomial(h, terms, indvar) == integrateTerms(h, terms, indvar)

\* the variable stays in the mapping with exponent 0
differentiateTermKeepVar(h, a, indvar) ==
    Then(deepClone(h, a),
         LAMBDA c :
             IF ~(c.h[c.r].hasVar /\ Has(c.h[c.r].var, indvar))
             THEN createTerm(c.h, Zero, <<>>)
             ELSE Ret([c.h EXCEPT ![c.r] =
                           Term(NMul(@.coeff, Int2Num(Get(@.var, indvar))), TRUE,
                                Put(@.var, indvar, Get(@.var, indvar) - 1))],
                      c.r))

\* the power rule without the factor n on the coefficient
differentiateTermKeepCoeff(h, a, indvar) ==
    Then(deepClone(h, a),
         LAMBDA c :
             LET newTerm == c.h[c.r]
             IN  IF ~(newTerm.hasVar /\ Has(newTerm.var, indvar))
                 THEN createTerm(c.h, Zero, <<>>)
                 ELSE LET power == Get(newTerm.var, indvar)
                          rest == Delete(newTerm.var, indvar)
                      IN  IF power = 1
                          THEN Ret([c.h EXCEPT ![c.r] =
                                        Term(newTerm.coeff, Len(rest) > 0,
                                             rest)], c.r)
                          ELSE Ret([c.h EXCEPT ![c.r] =
                                        Term(newTerm.coeff, TRUE,
                                             Put(newTerm.var, indvar,
                                                 power - 1))], c.r))

differentiateTerm(h, a, indvar) ==
    Then(deepClone(h, a),
         LAMBDA c :
             LET newTerm == c.h[c.r]
             IN  IF ~(newTerm.hasVar /\ Has(newTerm.var, indvar))
                 THEN createTerm(c.h, Zero, <<>>)
                 ELSE LET power == Get(newTerm.var, indvar)
                          coeff == NMul(newTerm.coeff, Int2Num(power))
                          rest == Delete(newTerm.var, indvar)
                      IN  IF power = 1
                          THEN Ret([c.h EXCEPT ![c.r] =
                                        Term(coeff, Len(rest) > 0, rest)], c.r)
                          ELSE Ret([c.h EXCEPT ![c.r] =
                                        Term(coeff, TRUE,
                                             Put(newTerm.var, indvar,
                                                 power - 1))], c.r))

\* the derivatives come out in the opposite order
RECURSIVE differentiateTermsReversed(_, _, _)
differentiateTermsReversed(h, terms, indvar) ==
    IF terms = <<>> THEN Ret(h, <<>>)
    ELSE Then(differentiateTerm(h, Head(terms), indvar),
              LAMBDA t :
                  Then(differentiateTermsReversed(t.h, Tail(terms), indvar),
                       LAMBDA rest : Ret(rest.h, rest.r \o <<t.r>>)))

RECURSIVE differentiateTerms(_, _, _)
differentiateTerms(h, terms, indvar) ==
    IF terms = <<>> THEN Ret(h, <<>>)
    ELSE Then(differentiateTerm(h, Head(terms), indvar),
              LAMBDA t : Cons(t, differentiateTerms(t.h, Tail(terms), indvar)))

\* terms with coefficient 0 are not filtered out
differentiatePolynomialKeepZeros(h, terms, indvar) ==
    differentiateTerms(h, terms, indvar)

differentiatePolynomial(h, terms, indvar) ==
    Then(differentiateTerms(h, terms, indvar),
         LAMBDA m : Ret(m.h, SelectSeq(m.r, LAMBDA a : m.h[a].coeff # Zero)))

addPolynomials(poly1, poly2) == poly1 \o poly2

\* { ...deepClone(t), coeff: k }: a new object with the clone's var
cloneWithCoeff(h, a, k) ==
    Then(deepClone(h, a), LAMBDA c : Ret([c.h EXCEPT ![c.r].coeff = k], c.r))

RECURSIVE negateTerms(_, _)
negateTerms(h, terms) ==
    IF terms = <<>> THEN Ret(h, <<>>)
    ELSE Then(cloneWithCoeff(h, Head(terms), NNeg(h[Head(terms)].coeff)),
              LAMBDA t : Cons(t, negateTerms(t.h, Tail(terms))))

subtractPolynomials(h, poly1, poly2) ==
    Then(negateTerms(h, poly2),
         LAMBDA negatedPoly2 :
             Ret(negatedPoly2.h, addPolynomials(poly1, negatedPoly2.r)))

\* vars[v] = pow for every entry of term1.var
RECURSIVE setEntries(_, _)
setEntries(vs, entries) ==
    IF entries = <<>> THEN vs
    ELSE setEntries(Put(vs, Head(entries)[1], Head(entries)[2]), Tail(entries))

\* vars[v] = pow for every entry of term2.var: a shared variable's exponent
\* is replaced, not added
addEntriesReplace(vs, entries) == setEntries(vs, entries)

\* vars[v] = (vars[v] || 0) + pow for every entry of term2.var
RECURSIVE addEntries(_, _)
addEntries(vs, entries) ==
    IF entries = <<>> THEN vs
    ELSE LET v == Head(entries)[1]
             old == IF Has(vs, v) THEN Get(vs, v) ELSE 0
         IN  addEntries(Put(vs, v, old + Head(entries)[2]), Tail(entries))

\* the variables of term2 are left out
multiplyTermsFirstVars(h, a1, a2) ==
    Alloc(h, Term(NMul(h[a1].coeff, h[a2].coeff),
                  h[a1].hasVar /\ Len(h[a1].var) > 0,
                  IF h[a1].hasVar THEN h[a1].var ELSE <<>>))

multiplyTerms(h, a1, a2) ==
    LET term1 == h[a1]
        term2 == h[a2]
        v1 == IF term1.hasVar THEN setEntries(<<>>, term1.var) ELSE <<>>
        v2 == IF term2.hasVar THEN addEntries(v1, term2.var) ELSE v1
    IN  Alloc(h, Term(NMul(term1.coeff, term2.coeff), Len(v2) > 0, v2))

\* the inner loop of multiplyPolynomials
RECURSIVE multiplyTermByTerms(_, _, _)
multiplyTermByTerms(h, term1, terms2) ==
    IF terms2 = <<>> THEN Ret(h, <<>>)
    ELSE Then(multiplyTerms(h, term1, Head(terms2)),
              LAMBDA m : Cons(m, multiplyTermByTerms(m.h, term1, Tail(terms2))))

\* only the first term of poly1 is multiplied
multiplyPolynomialsFirstRow(h, poly1, poly2) ==
    IF poly1 = <<>> THEN Ret(h, <<>>)
    ELSE multiplyTermByTerms(h, Head(poly1), poly2)

RECURSIVE multiplyPolynomials(_, _, _)
multiplyPolynomials(h, poly1, poly2) ==
    IF poly1 = <<>> THEN Ret(h, <<>>)
    ELSE Then(multiplyTermByTerms(h, Head(poly1), poly2),
              LAMBDA row :
                  Then(multiplyPolynomials(row.h, Tail(poly1), poly2),
                       LAMBDA rest : Ret(rest.h, row.r \o rest.r)))

RECURSIVE multiplyPolynomialByConstant(_, _, _)
multiplyPolynomialByConstant(h, terms, constant) ==
    IF terms = <<>> THEN Ret(h, <<>>)
    ELSE Then(cloneWithCoeff(h, Head(terms),
                             NMul(h[Head(terms)].coeff, constant)),
              LAMBDA t : Cons(t, multiplyPolynomialByConstant(t.h, Tail(terms),
                                                              constant)))

differentiateFraction(h, fraction, indvar) ==
    IF hasSimpleDenominator(fraction)
    THEN Then(differentiatePolynomial(h, fraction.numi, indvar),
              LAMBDA n : Ret(n.h, Fraction(n.r, fraction.deno)))
    ELSE LET f == fraction.numi
             g == fraction.deno.terms
         IN  Then(differentiatePolynomial(h, f, indvar), LAMBDA fPrime :
             Then(differentiatePolynomial(fPrime.h, g, indvar), LAMBDA gPrime :
             Then(multiplyPolynomials(gPrime.h, fPrime.r, g),
                  LAMBDA fPrimeTimesG :
             Then(multiplyPolynomials(fPrimeTimesG.h, f, gPrime.r),
                  LAMBDA fTimesGPrime :
             Then(subtractPolynomials(fTimesGPrime.h, fPrimeTimesG.r,
                                      fTimesGPrime.r),
                  LAMBDA numerator :
             Then(multiplyPolynomials(numerator.h, g, g),
                  LAMBDA denominator :
                      Ret(denominator.h,
                          Fraction(numerator.r, PolyDeno(denominator.r)))))))))

\* isSimpleSubstitutionCase differentiates the denominator and answers false
isSimpleSubstitutionCase(h, fraction, indvar) ==
    IF hasSimpleDenominator(fraction) THEN Ret(h, FALSE)
    ELSE Then(differentiatePolynomial(h, fraction.deno.terms, indvar),
              LAMBDA denoDeriv : Ret(denoDeriv.h, FALSE))

\* the numerator integrated over any denominator, a polynomial one included
integrateFractionAnyDenominator(h, fraction, indvar) ==
    Then(integratePolynomial(h, fraction.numi, indvar),
         LAMBDA n : Ret(n.h, Fraction(n.r, fraction.deno)))

integrateFraction(h, fraction, indvar) ==
    IF hasSimpleDenominator(fraction)
    THEN Then(integratePolynomial(h, fraction.numi, indvar),
              LAMBDA n : Ret(n.h, Fraction(n.r, fraction.deno)))
    ELSE Then(isSimpleSubstitutionCase(h, fraction, indvar),
              LAMBDA s : Raise(s.h, NoFraction, "UnsupportedIntegral"))

\* ------------------------------------------------------------------------
\* Definite and numerical integration
\* ------------------------------------------------------------------------
\* the integration variable stays in the result
definiteIntegrateTermKeepVar(h, a, lower, upper, indvar) ==
    Then(integrateTerm(h, a, indvar),
         LAMBDA i :
             Ret([i.h EXCEPT ![i.r].coeff =
                      NMul(@, NSub(NPow(upper, PowerOf(i.h[i.r], indvar)),
                                   NPow(lower, PowerOf(i.h[i.r], indvar))))],
                 i.r))

definiteIntegrateTerm(h, a, lower, upper, indvar) ==
    Then(integrateTerm(h, a, indvar),
         LAMBDA i :
             LET integratedTerm == i.h[i.r]
                 intPower == PowerOf(integratedTerm, indvar)
                 boundsDiff == NSub(NPow(upper, intPower), NPow(lower, intPower))
                 rest == Delete(integratedTerm.var, indvar)
             IN  Then(deepClone(i.h, i.r),
                      LAMBDA c :
                          Ret([c.h EXCEPT ![c.r] =
                                   Term(NMul(integratedTerm.coeff, boundsDiff),
                                        integratedTerm.hasVar /\ Len(rest) > 0,
                                        rest)],
                              c.r)))

RECURSIVE definiteIntegratePolynomial(_, _, _, _, _)
definiteIntegratePolynomial(h, terms, lower, upper, indvar) ==
    IF terms = <<>> THEN Ret(h, <<>>)
    ELSE Then(definiteIntegrateTerm(h, Head(terms), lower, upper, indvar),
              LAMBDA t : Cons(t, definiteIntegratePolynomial(t.h, Tail(terms),
                                                             lower, upper,
                                                             indvar)))

\* every interior sample has weight 4
RECURSIVE simpsonSumAllFour(_, _, _, _, _, _, _, _, _)
simpsonSumAllFour(h, fraction, lower, hh, indvar, numSteps, i, j, sum) ==
    IF i > j THEN Ok(sum)
    ELSE IF i = j
    THEN Then(evaluateFraction(h, fraction,
                               [v \in {indvar} |->
                                   NAdd(lower, NMul(Int2Num(i), hh))]),
              LAMBDA value :
                  Ok(NAdd(sum, NMul(Int2Num(IF i = 0 \/ i = numSteps
                                            THEN 1 ELSE 4),
                                    value.v))))
    ELSE Then(simpsonSumAllFour(h, fraction, lower, hh, indvar, numSteps,
                                i, (i + j) \div 2, sum),
              LAMBDA s :
                  simpsonSumAllFour(h, fraction, lower, hh, indvar, numSteps,
                                    (i + j) \div 2 + 1, j, s.v))

\* the loop of numericalIntegrateFraction over the samples i..j, sum being
\* the sum of the samples before i.  The samples are taken in the order of
\* the loop; the range is walked as its lower half followed by its upper half.
RECURSIVE simpsonSum(_, _, _, _, _, _, _, _, _)
simpsonSum(h, fraction, lower, hh, indvar, numSteps, i, j, sum) ==
    IF i > j THEN Ok(sum)
    ELSE IF i = j
    THEN LET x == NAdd(lower, NMul(Int2Num(i), hh))
             point == [v \in {indvar} |-> x]
             weight == IF i = 0 \/ i = numSteps THEN 1
                       ELSE IF i % 2 = 1 THEN 4 ELSE 2
         IN  Then(evaluateFraction(h, fraction, point),
                  LAMBDA value : Ok(NAdd(sum, NMul(Int2Num(weight), value.v))))
    ELSE Then(simpsonSum(h, fraction, lower, hh, indvar, numSteps,
                         i, (i + j) \div 2, sum),
              LAMBDA s : simpsonSum(h, fraction, lower, hh, indvar, numSteps,
                                    (i + j) \div 2 + 1, j, s.v))

numericalIntegrateFraction(h, fraction, lower, upper, indvar, steps) ==
    LET numSteps == IF steps % 2 # 0 THEN steps + 1 ELSE steps
        hh == NDiv(NSub(upper, lower), Int2Num(numSteps))
        sum == simpsonSum(h, fraction, lower, hh, indvar, numSteps, 0,
                          numSteps, Zero)
    IN  IF sum.err # "none"
        THEN Raise(h, NoFraction, sum.err)
        ELSE Then(createTerm(h, NMul(NDiv(hh, Int2Num(3)), sum.v), <<>>),
                  LAMBDA t : Ret(t.h, Fraction(<<t.r>>, Scalar(One))))

\* the default value of numSteps
DefaultNumSteps == 1000

\* no dispatch: term-wise integration whatever the denominator
definiteIntegrateFractionTermwise(h, fraction, lower, upper, indvar) ==
    Then(definiteIntegratePolynomial(h, fraction.numi, lower, upper, indvar),
         LAMBDA n : Ret(n.h, Fraction(n.r, fraction.deno)))

definiteIntegrateFraction(h, fraction, lower, upper, indvar) ==
    IF hasSimpleDenominator(fraction)
    THEN Then(definiteIntegratePolynomial(h, fraction.numi, lower, upper,
                                          indvar),
              LAMBDA n : Ret(n.h, Fraction(n.r, fraction.deno)))
    ELSE numericalIntegrateFraction(h, fraction, lower, upper, indvar,
                                    DefaultNumSteps)

\* ------------------------------------------------------------------------
\* Simplification
\* ------------------------------------------------------------------------
NAbs(a) == [a EXCEPT ![1] = Abs(a[1])]

\* a < b
NLess(a, b) ==
    IF Len(a) # Len(b) THEN OutOfRange(a, b)
    ELSE IF IsNaN(a) \/ IsNaN(b) THEN FALSE
    ELSE IF ~IsFinite(a) THEN a[1] < 0 /\ b # a
    ELSE IF ~IsFinite(b) THEN b[1] > 0
    ELSE a[1] * b[2] < b[1] * a[2]

\* a % b for a, b >= 0
NMod(a, b) ==
    IF Len(a) # Len(b) THEN OutOfRange(a, b)
    ELSE IF ~IsFinite(a) \/ IsNaN(b) \/ b = Zero THEN NaN
    ELSE IF ~IsFinite(b) THEN a
    ELSE NSub(a, NMul(b, Int2Num((a[1] * b[2]) \div (a[2] * b[1]))))

\* the loop of gcd, and its result a || 1
RECURSIVE gcdLoop(_, _)
gcdLoop(a, b) ==
    IF b = Zero \/ IsNaN(b) THEN (IF a = Zero \/ IsNaN(a) THEN One ELSE a)
    ELSE gcdLoop(b, NMod(a, b))

gcd(a, b) == gcdLoop(NAbs(a), NAbs(b))

\* no filter: every summed coefficient passes
AnyCoeff(c) == TRUE

\* Math.abs(coeff) > 1e-10, computed without forming 10^10
AboveEpsilon(c) ==
    IF Len(c) = 3 THEN 10 * c[2] < Abs(c[1])
    ELSE IF IsNaN(c) THEN FALSE
    ELSE IF ~IsFinite(c) THEN TRUE
    ELSE ((c[2] \div 100000) \div 100000) < Abs(c[1])

\* term.var ? JSON.stringify(term.var) : 'constant'.  The JSON text of an
\* object lists its properties in insertion order, so it is determined by,
\* and determines, the entry list; an empty object is truthy and has the
\* text "{}", which differs from 'constant'.
varKey(t) == IF t.hasVar THEN <<"json", t.var>> ELSE <<"constant", <<>>>>

MapHas(termMap, key) == \E i \in 1..Len(termMap) : termMap[i][1] = key

MapGet(termMap, key) ==
    termMap[CHOOSE i \in 1..Len(termMap) : termMap[i][1] = key][2]

\* the grouping loop with termMap.set(varKey, term): the Map holds the
\* argument's own term objects
RECURSIVE groupTermsShared(_, _, _)
groupTermsShared(h, terms, termMap) ==
    IF terms = <<>> THEN Ret(h, termMap)
    ELSE LET term == h[Head(terms)]
             key == varKey(term)
         IN  IF MapHas(termMap, key)
             THEN LET a == MapGet(termMap, key)
                  IN  groupTermsShared(
                          [h EXCEPT ![a].coeff = NAdd(h[a].coeff, term.coeff)],
                          Tail(terms), termMap)
             ELSE groupTermsShared(h, Tail(terms),
                                   Append(termMap, <<key, Head(terms)>>))

\* the grouping loop: termMap is the Map as its entry list <<key, address>>
RECURSIVE groupTerms(_, _, _)
groupTerms(h, terms, termMap) ==
    IF terms = <<>> THEN Ret(h, termMap)
    ELSE LET term == h[Head(terms)]
             key == varKey(term)
         IN  IF MapHas(termMap, key)
             THEN LET a == MapGet(termMap, key)
                  IN  groupTerms([h EXCEPT ![a].coeff = NAdd(h[a].coeff, term.coeff)],
                                 Tail(terms), termMap)
             ELSE Then(deepClone(h, Head(terms)),
                       LAMBDA c : groupTerms(c.h, Tail(terms),
                                             Append(termMap, <<key, c.r>>)))

RECURSIVE SumPowers(_)
SumPowers(vs) == IF vs = <<>> THEN 0 ELSE Head(vs)[2] + SumPowers(Tail(vs))

degree(t) == IF t.hasVar THEN SumPowers(t.var) ELSE 0

\* an unstable sort: an element goes before the elements of its own degree
RECURSIVE insertBeforeTies(_, _, _)
insertBeforeTies(h, sorted, a) ==
    IF sorted = <<>> THEN <<a>>
    ELSE IF degree(h[Head(sorted)]) > degree(h[a])
         THEN <<Head(sorted)>> \o insertBeforeTies(h, Tail(sorted), a)
         ELSE <<a>> \o sorted

\* Array.prototype.sort is stable: an element goes after every element the
\* comparator does not order after it
RECURSIVE insertByDegree(_, _, _)
insertByDegree(h, sorted, a) ==
    IF sorted = <<>> THEN <<a>>
    ELSE IF degree(h[Head(sorted)]) >= degree(h[a])
         THEN <<Head(sorted)>> \o insertByDegree(h, Tail(sorted), a)
         ELSE <<a>> \o sorted

\* no sort: the terms stay in the order of the Map
sortKeepOrder(h, terms, sorted) == sorted \o terms

RECURSIVE sortByDegree(_, _, _)
sortByDegree(h, terms, sorted) ==
    IF terms = <<>> THEN sorted
    ELSE sortByDegree(h, Tail(terms), insertByDegree(h, sorted, Head(terms)))

simplifyPolynomial(h, terms) ==
    Then(groupTerms(h, terms, <<>>),
         LAMBDA g :
             LET values == [i \in 1..Len(g.r) |-> g.r[i][2]]
                 kept == SelectSeq(values, LAMBDA a : AboveEpsilon(g.h[a].coeff))
             IN  Ret(g.h, sortByDegree(g.h, kept, <<>>)))

\* only the first coefficient enters the gcd
reduceGcdFirstOnly(h, terms, acc) == acc

\* coeffs.reduce((a, b) => gcd(a, b)) from the accumulator acc on
RECURSIVE reduceGcd(_, _, _)
reduceGcd(h, terms, acc) ==
    IF terms = <<>> THEN acc
    ELSE reduceGcd(h, Tail(terms), gcd(acc, h[Head(terms)].coeff))

\* the numerator's coefficients are left undivided
divideTermsKeepCoeff(h, terms, denoGCD) == Ret(h, terms)

RECURSIVE divideTerms(_, _, _)
divideTerms(h, terms, denoGCD) ==
    IF terms = <<>> THEN Ret(h, <<>>)
    ELSE Then(cloneWithCoeff(h, Head(terms),
                             NDiv(h[Head(terms)].coeff, denoGCD)),
              LAMBDA t : Cons(t, divideTerms(t.h, Tail(terms), denoGCD)))

simplifyFraction(h, fraction) ==
    Then(simplifyPolynomial(h, fraction.numi),
         LAMBDA simplifiedNumi :
             IF hasSimpleDenominator(fraction)
             THEN LET numGCD ==
                          reduceGcd(simplifiedNumi.h, Tail(simplifiedNumi.r),
                                    simplifiedNumi.h[Head(simplifiedNumi.r)].coeff)
                      denoGCD == gcd(numGCD, fraction.deno.n)
                  IN  IF Len(simplifiedNumi.r) > 0 /\ NLess(One, denoGCD)
                      THEN Then(divideTerms(simplifiedNumi.h, simplifiedNumi.r,
                                            denoGCD),
                                LAMBDA d :
                                    Ret(d.h,
                                        Fraction(d.r,
                                                 Scalar(NDiv(fraction.deno.n,
                                                             denoGCD)))))
                      ELSE Ret(simplifiedNumi.h,
                               Fraction(simplifiedNumi.r, fraction.deno))
             ELSE Then(simplifyPolynomial(simplifiedNumi.h, fraction.deno.terms),
                       LAMBDA simplifiedDeno :
                           Ret(simplifiedDeno.h,
                               Fraction(simplifiedNumi.r,
                                        PolyDeno(simplifiedDeno.r)))))

RECURSIVE simplifyProduct(_, _)
simplifyProduct(h, product) ==
    IF product = <<>> THEN Ret(h, <<>>)
    ELSE Then(simplifyFraction(h, Head(product)),
              LAMBDA f : Cons(f, simplifyProduct(f.h, Tail(product))))

RECURSIVE simplifyEquation(_, _)
simplifyEquation(h, equation) ==
    IF equation = <<>> THEN Ret(h, <<>>)
    ELSE Then(simplifyProduct(h, Head(equation)),
              LAMBDA p : Cons(p, simplifyEquation(p.h, Tail(equation))))

\* ------------------------------------------------------------------------
\* Expansion
\* ------------------------------------------------------------------------
expandFractions(h, frac1, frac2) ==
    Then(multiplyPolynomials(h, frac1.numi, frac2.numi),
         LAMBDA expandedNumi :
             Then(IF hasSimpleDenominator(frac1) /\ hasSimpleDenominator(frac2)
                  THEN Ret(expandedNumi.h,
                           Scalar(NMul(frac1.deno.n, frac2.deno.n)))
                  ELSE IF hasSimpleDenominator(frac1)
                  THEN Then(multiplyPolynomialByConstant(expandedNumi.h,
                                                         frac2.deno.terms,
                                                         frac1.deno.n),
                            LAMBDA m : Ret(m.h, PolyDeno(m.r)))
                  ELSE IF hasSimpleDenominator(frac2)
                  THEN Then(multiplyPolynomialByConstant(expandedNumi.h,
                                                         frac1.deno.terms,
                                                         frac2.deno.n),
                            LAMBDA m : Ret(m.h, PolyDeno(m.r)))
                  ELSE Then(multiplyPolynomials(expandedNumi.h,
                                                frac1.deno.terms,
                                                frac2.deno.terms),
                            LAMBDA m : Ret(m.h, PolyDeno(m.r))),
                  LAMBDA newDeno :
                      simplifyFraction(newDeno.h,
                                       Fraction(expandedNumi.r, newDeno.r))))

\* the loop ends before its first step
expandRestFirstOnly(h, result, rest) == Ret(h, result)

\* the loop of expandProduct
RECURSIVE expandRest(_, _, _)
expandRest(h, result, rest) ==
    IF rest = <<>> THEN Ret(h, result)
    ELSE Then(expandFractions(h, result, Head(rest)),
              LAMBDA e : expandRest(e.h, e.r, Tail(rest)))

expandProduct(h, product) ==
    IF Len(product) = 0
    THEN Then(createTerm(h, One, <<>>),
              LAMBDA t : createFraction(t.h, <<t.r>>, Scalar(One)))
    ELSE expandRest(h, Head(product), Tail(product))

\* the inner loop of productRuleDifferentiate: product is multiplied by every
\* factor but the i-th
RECURSIVE productRuleFactor(_, _, _, _, _)
productRuleFactor(h, product, productArray, i, j) ==
    IF j > Len(productArray) THEN Ret(h, product)
    ELSE IF i # j
    THEN Then(expandFractions(h, product, productArray[j]),
              LAMBDA e : productRuleFactor(e.h, e.r, productArray, i, j + 1))
    ELSE productRuleFactor(h, product, productArray, i, j + 1)

\* the outer loop of productRuleDifferentiate: the numerator terms of every
\* product are pushed to resultTerms
RECURSIVE productRuleTerms(_, _, _, _)
productRuleTerms(h, productArray, indvar, i) ==
    IF i > Len(productArray) THEN Ret(h, <<>>)
    ELSE Then(differentiateFraction(h, productArray[i], indvar),
              LAMBDA diffFactor :
                  Then(productRuleFactor(diffFactor.h, diffFactor.r,
                                         productArray, i, 1),
                       LAMBDA product :
                           Then(productRuleTerms(product.h, productArray,
                                                 indvar, i + 1),
                                LAMBDA rest :
                                    Ret(rest.h, product.r.numi \o rest.r))))

productRuleDifferentiate(h, productArray, indvar) ==
    IF Len(productArray) = 0
    THEN Then(createTerm(h, Zero, <<>>),
              LAMBDA t : createFraction(t.h, <<t.r>>, Scalar(One)))
    ELSE IF Len(productArray) = 1
    THEN differentiateFraction(h, productArray[1], indvar)
    ELSE Then(productRuleTerms(h, productArray, indvar, 1),
              LAMBDA resultTerms :
                  simplifyFraction(resultTerms.h,
                                   Fraction(resultTerms.r, Scalar(One))))

\* ------------------------------------------------------------------------
\* The caller.  Init builds the caller's two term arrays P and Q on the heap;
\* an action calls one operation on arguments built from them.
\* ------------------------------------------------------------------------
MaxTerms == 2

MaxCoeff == 2

MaxExp == 1

MaxValue == 2

Coeffs == {Int2Num(c) : c \in -MaxCoeff..MaxCoeff}

VarLists ==
    {<<>>}
    \cup {<<<<v, e>>>> : v \in Vars, e \in 1..MaxExp}
    \cup {vs \in {<<<<v, e>>, <<w, f>>>> :
                       v \in Vars, w \in Vars, e \in 1..MaxExp, f \in 1..MaxExp} :
              vs[1][1] # vs[2][1]}

\* terms as createTerm builds them
Terms == {Term(c, Len(vs) > 0, vs) : c \in Coeffs, vs \in VarLists}

\* object literals whose var field is an empty object
EmptyVarTerms == {Term(c, TRUE, <<>>) : c \in Coeffs}

PolysOver(S, n) == UNION {[1..k -> S] : k \in 0..n}

Numbers == {Int2Num(i) : i \in 0..MaxValue}

\* bindings of some of the variables: x to any number, y to 1
Bindings ==
    {[v \in D |-> IF v = "x" THEN n ELSE One] : D \in SUBSET Vars, n \in Numbers}

Call(name) ==
    [op |-> name, terms1 |-> <<>>, terms2 |-> <<>>,
     f1 |-> NoFraction, f2 |-> NoFraction, product |-> <<>>, equation |-> <<>>,
     indvar |-> "x", values |-> <<>>, lower |-> Zero, upper |-> Zero,
     steps |-> 0]

NoResult == [err |-> "none", num |-> Zero, fracs |-> <<>>]

NumResult(e) == [err |-> e.err, num |-> e.v, fracs |-> <<>>]

\* the caller owns the term values p and q
InitWorld(p, q) ==
    /\ heap = p \o q
    /\ heap0 = p \o q
    /\ world = [P |-> [i \in 1..Len(p) |-> i],
                Q |-> [i \in 1..Len(q) |-> Len(p) + i]]
    /\ pc = "idle"
    /\ call = Call("none")
    /\ res = NoResult

\* a call that builds no object
Evaluated(c, e) ==
    /\ pc' = "returned"
    /\ call' = c
    /\ res' = NumResult(e)
    /\ heap0' = heap
    /\ UNCHANGED <<heap, world>>

\* the fractions the caller can form from P and Q
Scalars == {Int2Num(d) : d \in 0..MaxCoeff + 1}

Fractions ==
    {Fraction(world.P, Scalar(d)) : d \in Scalars}
    \cup {Fraction(world.P, PolyDeno(world.Q)), Fraction(world.Q, Scalar(One))}

Products ==
    {<<>>} \cup {<<f>> : f \in Fractions}
    \cup {<<f, Fraction(world.Q, Scalar(One))>> : f \in Fractions}
    \cup {<<Fraction(world.P, Scalar(One)), Fraction(world.Q, Scalar(One)),
             Fraction(world.P, Scalar(One))>>}

Equations ==
    {<<>>} \cup {<<p>> : p \in Products}
    \cup {<<<<f>>, <<Fraction(world.Q, Scalar(One))>>>> : f \in Fractions}

\* ------------------------------------------------------------------------
\* Evaluation calls
\* ------------------------------------------------------------------------
EvalVarLists ==
    {vs \in VarLists : Len(vs) <= 1 /\ \A i \in 1..Len(vs) : vs[i][2] = MaxExp}

EvalTerms ==
    {Term(c, Len(vs) > 0, vs) : c \in {Int2Num(-MaxCoeff), One}, vs \in EvalVarLists}

InitEval ==
    \E p \in PolysOver(EvalTerms, 1), q \in PolysOver(EvalTerms, MaxTerms) :
        InitWorld(p, q)

EvaluateTerm ==
    /\ pc = "idle"
    /\ \E a \in 1..Len(heap), values \in Bindings :
        Evaluated([Call("evaluateTerm") EXCEPT !.terms1 = <<a>>, !.values = values],
                  evaluateTerm(heap, a, values))

EvaluatePolynomial ==
    /\ pc = "idle"
    /\ \E terms \in {world.P, world.Q}, values \in Bindings :
        Evaluated([Call("evaluatePolynomial") EXCEPT !.terms1 = terms,
                                                     !.values = values],
                  evaluatePolynomial(heap, terms, values))

EvaluateFraction ==
    /\ pc = "idle"
    /\ \E f \in Fractions, values \in Bindings :
        Evaluated([Call("evaluateFraction") EXCEPT !.f1 = f, !.values = values],
                  evaluateFraction(heap, f, values))

EvaluateProduct ==
    /\ pc = "idle"
    /\ \E product \in Products, values \in Bindings :
        Evaluated([Call("evaluateProduct") EXCEPT !.product = product,
                                                  !.values = values],
                  evaluateProduct(heap, product, values))

EvaluateEquation ==
    /\ pc = "idle"
    /\ \E equation \in Equations, values \in Bindings :
        Evaluated([Call("evaluateEquation") EXCEPT !.equation = equation,
                                                   !.values = values],
                  evaluateEquation(heap, equation, values))

NextEval ==
    \/ EvaluateTerm
    \/ EvaluatePolynomial
    \/ EvaluateFraction
    \/ EvaluateProduct
    \/ EvaluateEquation

SpecEval == InitEval /\ [][NextEval]_vars

\* every variable of the fraction is bound and its denominator is exactly 0
ZeroDenominator(h, f, values) ==
    /\ evaluatePolynomial(h, f.numi, values).err = "none"
    /\ IF hasSimpleDenominator(f) THEN f.deno.n = Zero
       ELSE evaluatePolynomial(h, f.deno.terms, values) = Ok(Zero)

\* every variable of the fraction is bound
AllBound(h, f, values) ==
    /\ evaluatePolynomial(h, f.numi, values).err = "none"
    /\ hasSimpleDenominator(f)
       \/ evaluatePolynomial(h, f.deno.terms, values).err = "none"

\* the fractions an evaluation call goes through
RECURSIVE Flatten(_)
Flatten(ss) == IF ss = <<>> THEN <<>> ELSE Head(ss) \o Flatten(Tail(ss))

EvaluatedFractions ==
    IF call.op = "evaluateFraction" THEN <<call.f1>>
    ELSE IF call.op = "evaluateProduct" THEN call.product
    ELSE IF call.op = "evaluateEquation" THEN Flatten(call.equation)
    ELSE <<>>

\* C1: evaluateFraction, evaluateProduct and evaluateEquation fail with
\* DivisionByZero, and return no number, whenever a fraction they evaluate
\* (all of whose variables are bound) has a denominator that is exactly 0.
C1_DivisionByZeroFails ==
    (/\ pc = "returned"
     /\ \A i \in 1..Len(EvaluatedFractions) :
            AllBound(heap, EvaluatedFractions[i], call.values)
     /\ \E i \in 1..Len(EvaluatedFractions) :
            ZeroDenominator(heap, EvaluatedFractions[i], call.values))
    => res.err = "DivisionByZero"

\* ------------------------------------------------------------------------
\* Calls that build objects
\* op applied from the left to base and the elements of seq
RECURSIVE Fold(_, _, _)
Fold(op(_, _), base, seq) ==
    IF seq = <<>> THEN base ELSE Fold(op, op(base, Head(seq)), Tail(seq))

\* coefficient times the product of values[v]^exponent
TermValue(t, values) ==
    Fold(LAMBDA acc, e : NMul(acc, NPow(values[e[1]], e[2])), t.coeff, t.var)

PolynomialValue(h, terms, values) ==
    Fold(LAMBDA acc, a : NAdd(acc, TermValue(h[a], values)), Zero, terms)

FractionValue(h, f, values) ==
    NDiv(PolynomialValue(h, f.numi, values),
         IF hasSimpleDenominator(f) THEN f.deno.n
         ELSE PolynomialValue(h, f.deno.terms, values))

ProductValue(h, product, values) ==
    Fold(LAMBDA acc, f : NMul(acc, FractionValue(h, f, values)), One, product)

\* C13: evaluateTerm, evaluatePolynomial, evaluateFraction, evaluateProduct
\* and evaluateEquation fail with MissingVariable exactly when a variable of
\* some term of the expression (numerator or polynomial denominator) has no
\* value in the bindings; otherwise they return the coefficients times the
\* powers of the values, summed and multiplied as the structure dictates
\* (where no denominator is 0, the case of C1).
C13_MissingVariable ==
    (pc = "returned" /\ call.op # "none")
    => LET fs == IF call.op \in {"evaluateTerm", "evaluatePolynomial"}
                 THEN <<Fraction(call.terms1, Scalar(One))>>
                 ELSE EvaluatedFractions
           addrs == UNION {{fs[i].numi[j] : j \in 1..Len(fs[i].numi)}
                           \cup {fs[i].deno.terms[j] :
                                     j \in 1..Len(fs[i].deno.terms)} :
                           i \in 1..Len(fs)}
           missing == \E a \in addrs :
                          \E v \in Keys(heap[a].var) : v \notin DOMAIN call.values
           expected ==
               IF call.op = "evaluateEquation"
               THEN Fold(LAMBDA acc, p :
                             NAdd(acc, ProductValue(heap, p, call.values)),
                         Zero, call.equation)
               ELSE ProductValue(heap, fs, call.values)
       IN  IF missing THEN res.err = "MissingVariable"
           ELSE /\ res.err = "none"
                /\ (\A i \in 1..Len(fs) :
                        ~ZeroDenominator(heap, fs[i], call.values))
                   => res.num = expected

\* an evaluation of a product in which only the last fraction has a variable
\* without a value
C13_Witness ==
    /\ pc = "returned"
    /\ call.op = "evaluateProduct"
    /\ Len(call.product) = 2
    /\ res.err = "MissingVariable"
    /\ AllBound(heap, call.product[1], call.values)
    /\ FractionValue(heap, call.product[1], call.values) # Zero

\* ------------------------------------------------------------------------
\* res.fracs holds the returned fraction; a returned polynomial or term is
\* held as a fraction over 1, a returned product as its fractions; nothing
\* is held when the call threw
FracResult(r) ==
    [err |-> r.err, num |-> Zero,
     fracs |-> IF r.err = "none" THEN <<r.r>> ELSE <<>>]

PolyResult(r) ==
    [err |-> r.err, num |-> Zero,
     fracs |-> IF r.err = "none" THEN <<Fraction(r.r, Scalar(One))>> ELSE <<>>]

ListResult(r) ==
    [err |-> r.err, num |-> Zero, fracs |-> IF r.err = "none" THEN r.r ELSE <<>>]

TermResult(r) ==
    [err |-> r.err, num |-> Zero,
     fracs |-> IF r.err = "none" THEN <<Fraction(<<r.r>>, Scalar(One))>> ELSE <<>>]

\* the call c ran on the current heap, left the heap h and gave result r
Called(c, h, r, next) ==
    /\ pc' = next
    /\ call' = c
    /\ res' = r
    /\ heap0' = heap
    /\ heap' = h
    /\ UNCHANGED world

\* the term values at a sequence of addresses
Deref(h, terms) == [i \in 1..Len(terms) |-> h[terms[i]]]

\* ------------------------------------------------------------------------
\* Differentiation of fractions, once and again on the result
\* ------------------------------------------------------------------------
\* the most terms of a returned fraction that the caller differentiates again
MaxResultTerms == 7

DiffTerms ==
    {Term(One, FALSE, <<>>)}
    \cup {Term(One, TRUE, <<<<"x", e>>>>) : e \in 1..MaxExp}
    \cup {Term(Int2Num(-MaxCoeff), TRUE, <<<<"x", e>>, <<"y", 1>>>>) :
              e \in 1..MaxExp}

\* the terms of the caller's denominators
DenoTerms ==
    {Term(One, FALSE, <<>>), Term(One, TRUE, <<<<"x", 1>>>>),
     Term(Int2Num(-MaxCoeff), TRUE, <<<<"x", 1>>, <<"y", 1>>>>)}

InitDiff ==
    \E p \in PolysOver(DiffTerms, MaxTerms), q \in PolysOver(DenoTerms, MaxTerms) :
        InitWorld(p, q)

DifferentiateFraction ==
    /\ pc = "idle"
    /\ \E f \in {Fraction(world.P, Scalar(Int2Num(MaxCoeff))),
                 Fraction(world.P, PolyDeno(world.Q))},
          indvar \in Vars :
           LET r == differentiateFraction(heap, f, indvar)
           IN  Called([Call("differentiateFraction") EXCEPT !.f1 = f,
                                                            !.indvar = indvar],
                      r.h, FracResult(r), "returned")

\* the caller differentiates the fraction it got back, in the same variable
DifferentiateAgain ==
    /\ pc = "returned"
    /\ call.op = "differentiateFraction"
    /\ Len(res.fracs[1].numi) + Len(res.fracs[1].deno.terms) <= MaxResultTerms
    /\ LET r == differentiateFraction(heap, res.fracs[1], call.indvar)
       IN  Called([call EXCEPT !.f1 = res.fracs[1]], r.h, FracResult(r),
                  "returned2")

NextDiff ==
    \/ DifferentiateFraction
    \/ DifferentiateAgain

SpecDiff == InitDiff /\ [][NextDiff]_vars

FullBindings == [Vars -> Numbers]

\* the value of a polynomial all of whose variables are bound
Value(h, terms, values) == evaluatePolynomial(h, terms, values).v

QuotientRuleCall ==
    /\ pc \in {"returned", "returned2"}
    /\ call.op = "differentiateFraction"
    /\ ~hasSimpleDenominator(call.f1)

C3_NumeratorSimplified ==
    QuotientRuleCall =>
        LET f == call.f1.numi
            g == call.f1.deno.terms
            fPrime == differentiatePolynomial(heap0, f, call.indvar)
            gPrime == differentiatePolynomial(fPrime.h, g, call.indvar)
            fPrimeTimesG == multiplyPolynomials(gPrime.h, fPrime.r, g)
            fTimesGPrime == multiplyPolynomials(fPrimeTimesG.h, f, gPrime.r)
            diff == subtractPolynomials(fTimesGPrime.h, fPrimeTimesG.r,
                                        fTimesGPrime.r)
            simplified == simplifyPolynomial(diff.h, diff.r)
            gg == multiplyPolynomials(heap0, g, g)
            N == Deref(heap, res.fracs[1].numi)
        IN  /\ N = Deref(simplified.h, simplified.r)
            /\ \A i, j \in 1..Len(N) : i # j => N[i].var # N[j].var
            /\ Deref(heap, res.fracs[1].deno.terms) = Deref(gg.h, gg.r)

\* the caller's fraction is x/(x+1)
XOverXPlus1 ==
    /\ Deref(heap, world.P) = <<Term(One, TRUE, <<<<"x", 1>>>>)>>
    /\ Deref(heap, world.Q) =
           <<Term(One, TRUE, <<<<"x", 1>>>>), Term(One, FALSE, <<>>)>>
    /\ call.op = "differentiateFraction"
    /\ call.indvar = "x"

AtX1 == [v \in {"x"} |-> One]

SimpTerms ==
    {Term(c, Len(vs) > 0, vs) :
         c \in {Int2Num(-1), Zero, One, Int2Num(MaxCoeff)}, vs \in VarLists}
    \cup {Term(c, TRUE, <<>>) : c \in {Int2Num(-1), One}}

\* 5 + 3 - 8, 3x + 2x - x, and y + xy + x
SimpExamples ==
    {<<Term(Int2Num(5), FALSE, <<>>), Term(Int2Num(3), FALSE, <<>>),
       Term(Int2Num(-8), FALSE, <<>>)>>,
     <<Term(Int2Num(3), TRUE, <<<<"x", 1>>>>),
       Term(Int2Num(2), TRUE, <<<<"x", 1>>>>),
       Term(Int2Num(-1), TRUE, <<<<"x", 1>>>>)>>,
     <<Term(One, TRUE, <<<<"y", 1>>>>),
       Term(One, TRUE, <<<<"x", 1>>, <<"y", 1>>>>),
       Term(One, TRUE, <<<<"x", 1>>>>)>>}

InitSimp ==
    \E p \in PolysOver(SimpTerms, MaxTerms) \cup SimpExamples :
        InitWorld(p, <<>>)

SimplifyPolynomial ==
    /\ pc = "idle"
    /\ \E terms \in {world.P, world.Q} :
           LET r == simplifyPolynomial(heap, terms)
           IN  Called([Call("simplifyPolynomial") EXCEPT !.terms1 = terms],
                      r.h, PolyResult(r), "returned")

NextSimp == SimplifyPolynomial

SpecSimp == InitSimp /\ [][NextSimp]_vars

\* the variable-to-exponent mapping of a term
Mapping(t) == {t.var[i] : i \in 1..Len(t.var)}

RECURSIVE SumCoeffs(_, _)
SumCoeffs(ts, m) ==
    IF ts = <<>> THEN Zero
    ELSE NAdd(IF Mapping(Head(ts)) = m THEN Head(ts).coeff ELSE Zero,
              SumCoeffs(Tail(ts), m))

\* C6: simplifyPolynomial merges all like terms: no two terms of its result
\* have the same variable-to-exponent mapping, and each result coefficient is
\* the sum of the input coefficients with that mapping, in whatever order the
\* variables were inserted (for terms built by createTerm and multiplyTerms).
C6_LikeTermsMerged ==
    (/\ pc = "returned"
     /\ call.op = "simplifyPolynomial"
     /\ \A a \in 1..Len(heap0) : heap0[a].hasVar = (Len(heap0[a].var) > 0))
    => LET in == Deref(heap0, call.terms1)
           out == Deref(heap, res.fracs[1].numi)
       IN  /\ \A i, j \in 1..Len(out) :
                  i # j => Mapping(out[i]) # Mapping(out[j])
           /\ \A i \in 1..Len(out) :
                  out[i].coeff = SumCoeffs(in, Mapping(out[i]))

\* C7: simplifyPolynomial is idempotent: simplifying its result again gives
\* the identical term sequence (same terms, coefficients and order).
C7_Idempotent ==
    (pc = "returned" /\ call.op = "simplifyPolynomial")
    => LET again == simplifyPolynomial(heap, res.fracs[1].numi)
       IN  Deref(again.h, again.r) = Deref(heap, res.fracs[1].numi)

\* a simplified polynomial of two terms of equal total degree
C7_Witness ==
    /\ pc = "returned"
    /\ call.op = "simplifyPolynomial"
    /\ Len(res.fracs[1].numi) = 2
    /\ degree(heap[res.fracs[1].numi[1]]) = degree(heap[res.fracs[1].numi[2]])

\* ------------------------------------------------------------------------
\* Expansion
\* ------------------------------------------------------------------------
\* the terms of the factors to expand: 1, -1, x and a term in two variables
ExpandTerms ==
    {Term(One, FALSE, <<>>),
     Term(Int2Num(-1), FALSE, <<>>),
     Term(One, TRUE, <<<<"x", 1>>>>),
     Term(Int2Num(-MaxCoeff), TRUE, <<<<"x", MaxExp>>, <<"y", 1>>>>)}

\* P has up to MaxTerms terms, Q is at most a binomial
InitExpand ==
    \E p \in PolysOver(ExpandTerms, MaxTerms), q \in PolysOver(ExpandTerms, 2) :
        InitWorld(p, q)

ExpandFractions ==
    /\ pc = "idle"
    /\ \E frac1 \in Fractions, frac2 \in Fractions :
           LET r == expandFractions(heap, frac1, frac2)
           IN  Called([Call("expandFractions") EXCEPT !.f1 = frac1, !.f2 = frac2],
                      r.h, FracResult(r), "returned")

ExpandProduct ==
    /\ pc = "idle"
    /\ \E product \in Products :
           LET r == expandProduct(heap, product)
           IN  Called([Call("expandProduct") EXCEPT !.product = product],
                      r.h, FracResult(r), "returned")

ProductRuleDifferentiate ==
    /\ pc = "idle"
    /\ \E product \in Products, indvar \in Vars :
           LET r == productRuleDifferentiate(heap, product, indvar)
           IN  Called([Call("productRuleDifferentiate") EXCEPT
                           !.product = product, !.indvar = indvar],
                      r.h, FracResult(r), "returned")

NextExpand ==
    \/ ExpandFractions
    \/ ExpandProduct
    \/ ProductRuleDifferentiate

SpecExpand == InitExpand /\ [][NextExpand]_vars

\* C5: expandFractions fails with UnsupportedExpansion, and returns no
\* fraction, if either denominator is a scalar other than 1 or a polynomial.
C5_ExpansionRequiresDeno1 ==
    (/\ pc = "returned"
     /\ call.op = "expandFractions"
     /\ call.f1.deno # Scalar(One) \/ call.f2.deno # Scalar(One))
    => res.err = "UnsupportedExpansion" /\ res.fracs = <<>>

\* ------------------------------------------------------------------------
\* The whole library: the caller makes one call, and may then write to a
\* term of its own arrays or to a term of the value it got back.
\* ------------------------------------------------------------------------
OpTerms ==
    {Term(One, FALSE, <<>>),
     Term(Int2Num(MaxCoeff), TRUE, <<<<"x", MaxExp>>>>),
     Term(Int2Num(-1), TRUE, <<<<"x", 1>>, <<"y", 1>>>>),
     Term(One, TRUE, <<<<"x", -1>>>>)}

Init ==
    \E p \in PolysOver(OpTerms, MaxTerms), q \in PolysOver(OpTerms, 1) :
        InitWorld(p, q)

\* createFraction's second argument: a number, an array, a polynomial object
DenoArgs ==
    {Scalar(d) : d \in Scalars}
    \cup {PolyDeno(world.Q), [tag |-> "array", n |-> Zero, terms |-> world.Q]}

CreateFraction ==
    /\ pc = "idle"
    /\ \E numiTerms \in {world.P}, denoTerms \in DenoArgs :
           LET r == createFraction(heap, numiTerms, denoTerms)
           IN  Called([Call("createFraction") EXCEPT
                           !.f1 = Fraction(numiTerms, denoTerms)],
                      r.h, FracResult(r), "returned")

Bounds == {<<Zero, Int2Num(MaxValue)>>, <<One, One>>}

\* the largest number of steps passed to numericalIntegrateFraction
MaxSteps == 4

IntegrateTerm ==
    /\ pc = "idle"
    /\ \E a \in 1..Len(heap), indvar \in Vars :
           LET r == integrateTerm(heap, a, indvar)
           IN  Called([Call("integrateTerm") EXCEPT !.terms1 = <<a>>,
                                                    !.indvar = indvar],
                      r.h, TermResult(r), "returned")

IntegratePolynomial ==
    /\ pc = "idle"
    /\ \E terms \in {world.P, world.Q}, indvar \in Vars :
           LET r == integratePolynomial(heap, terms, indvar)
           IN  Called([Call("integratePolynomial") EXCEPT !.terms1 = terms,
                                                          !.indvar = indvar],
                      r.h, PolyResult(r), "returned")

IntegrateFraction ==
    /\ pc = "idle"
    /\ \E f \in Fractions, indvar \in Vars :
           LET r == integrateFraction(heap, f, indvar)
           IN  Called([Call("integrateFraction") EXCEPT !.f1 = f,
                                                        !.indvar = indvar],
                      r.h, FracResult(r), "returned")

DefiniteIntegrateTerm ==
    /\ pc = "idle"
    /\ \E a \in 1..Len(heap), indvar \in Vars, b \in Bounds :
           LET r == definiteIntegrateTerm(heap, a, b[1], b[2], indvar)
           IN  Called([Call("definiteIntegrateTerm") EXCEPT
                           !.terms1 = <<a>>, !.indvar = indvar,
                           !.lower = b[1], !.upper = b[2]],
                      r.h, TermResult(r), "returned")

DefiniteIntegratePolynomial ==
    /\ pc = "idle"
    /\ \E terms \in {world.P, world.Q}, indvar \in Vars, b \in Bounds :
           LET r == definiteIntegratePolynomial(heap, terms, b[1], b[2], indvar)
           IN  Called([Call("definiteIntegratePolynomial") EXCEPT
                           !.terms1 = terms, !.indvar = indvar,
                           !.lower = b[1], !.upper = b[2]],
                      r.h, PolyResult(r), "returned")

\* a fraction with a polynomial denominator is integrated over the interval
\* from 1 to 1, or over any interval when none of its terms has a variable:
\* the DefaultNumSteps + 1 samples then stay within the numbers above
DefiniteIntegrateFraction ==
    /\ pc = "idle"
    /\ \E f \in Fractions, indvar \in Vars, b \in Bounds :
           /\ \/ hasSimpleDenominator(f)
              \/ b[1] = b[2]
              \/ \A i \in 1..Len(f.numi \o f.deno.terms) :
                     ~heap[(f.numi \o f.deno.terms)[i]].hasVar
           /\ LET r == definiteIntegrateFraction(heap, f, b[1], b[2], indvar)
              IN  Called([Call("definiteIntegrateFraction") EXCEPT
                              !.f1 = f, !.indvar = indvar,
                              !.lower = b[1], !.upper = b[2]],
                         r.h, FracResult(r), "returned")

NumericalIntegrateFraction ==
    /\ pc = "idle"
    /\ \E f \in Fractions, indvar \in Vars, b \in Bounds,
          numSteps \in {1, MaxSteps} :
           LET r == numericalIntegrateFraction(heap, f, b[1], b[2], indvar,
                                               numSteps)
           IN  Called([Call("numericalIntegrateFraction") EXCEPT
                           !.f1 = f, !.indvar = indvar, !.lower = b[1],
                           !.upper = b[2], !.steps = numSteps],
                      r.h, FracResult(r), "returned")

DifferentiateTerm ==
    /\ pc = "idle"
    /\ \E a \in 1..Len(heap), indvar \in Vars :
           LET r == differentiateTerm(heap, a, indvar)
           IN  Called([Call("differentiateTerm") EXCEPT !.terms1 = <<a>>,
                                                        !.indvar = indvar],
                      r.h, TermResult(r), "returned")

DifferentiatePolynomial ==
    /\ pc = "idle"
    /\ \E terms \in {world.P, world.Q}, indvar \in Vars :
           LET r == differentiatePolynomial(heap, terms, indvar)
           IN  Called([Call("differentiatePolynomial") EXCEPT !.terms1 = terms,
                                                              !.indvar = indvar],
                      r.h, PolyResult(r), "returned")

DifferentiateAnyFraction ==
    /\ pc = "idle"
    /\ \E f \in Fractions, indvar \in Vars :
           LET r == differentiateFraction(heap, f, indvar)
           IN  Called([Call("differentiateFraction") EXCEPT !.f1 = f,
                                                            !.indvar = indvar],
                      r.h, FracResult(r), "returned")

AddPolynomials ==
    /\ pc = "idle"
    /\ \E poly1 \in {world.P, world.Q}, poly2 \in {world.P, world.Q} :
           Called([Call("addPolynomials") EXCEPT !.terms1 = poly1,
                                                 !.terms2 = poly2],
                  heap, PolyResult(Ret(heap, addPolynomials(poly1, poly2))),
                  "returned")

SubtractPolynomials ==
    /\ pc = "idle"
    /\ \E poly1 \in {world.P, world.Q}, poly2 \in {world.P, world.Q} :
           LET r == subtractPolynomials(heap, poly1, poly2)
           IN  Called([Call("subtractPolynomials") EXCEPT !.terms1 = poly1,
                                                          !.terms2 = poly2],
                      r.h, PolyResult(r), "returned")

MultiplyTerms ==
    /\ pc = "idle"
    /\ \E a1 \in 1..Len(heap), a2 \in 1..Len(heap) :
           LET r == multiplyTerms(heap, a1, a2)
           IN  Called([Call("multiplyTerms") EXCEPT !.terms1 = <<a1>>,
                                                    !.terms2 = <<a2>>],
                      r.h, TermResult(r), "returned")

MultiplyPolynomials ==
    /\ pc = "idle"
    /\ \E poly1 \in {world.P, world.Q}, poly2 \in {world.P, world.Q} :
           LET r == multiplyPolynomials(heap, poly1, poly2)
           IN  Called([Call("multiplyPolynomials") EXCEPT !.terms1 = poly1,
                                                          !.terms2 = poly2],
                      r.h, PolyResult(r), "returned")

MultiplyPolynomialByConstant ==
    /\ pc = "idle"
    /\ \E terms \in {world.P, world.Q}, constant \in Scalars :
           LET r == multiplyPolynomialByConstant(heap, terms, constant)
           IN  Called([Call("multiplyPolynomialByConstant") EXCEPT
                           !.terms1 = terms, !.lower = constant],
                      r.h, PolyResult(r), "returned")

\* a numerator with coefficients of the order of 10^-11 is simplified over a
\* polynomial denominator
SimplifyFraction ==
    /\ pc = "idle"
    /\ \E f \in Fractions :
           /\ hasSimpleDenominator(f)
              => \A i \in 1..Len(f.numi) : Len(heap[f.numi[i]].coeff) = 2
           /\ LET r == simplifyFraction(heap, f)
              IN  Called([Call("simplifyFraction") EXCEPT !.f1 = f],
                         r.h, FracResult(r), "returned")

SimplifyProduct ==
    /\ pc = "idle"
    /\ \E product \in Products :
           LET r == simplifyProduct(heap, product)
           IN  Called([Call("simplifyProduct") EXCEPT !.product = product],
                      r.h, ListResult(r), "returned")

SimplifyEquation ==
    /\ pc = "idle"
    /\ \E equation \in Equations :
           LET r == simplifyEquation(heap, equation)
           IN  Called([Call("simplifyEquation") EXCEPT !.equation = equation],
                      r.h, ListResult(Raise(r.h, Flatten(r.r), r.err)),
                      "returned")

\* the addresses of the terms of a sequence of fractions
FractionAddrs(fs) ==
    UNION {{fs[i].numi[j] : j \in 1..Len(fs[i].numi)}
           \cup {fs[i].deno.terms[j] : j \in 1..Len(fs[i].deno.terms)} :
           i \in 1..Len(fs)}

\* the terms the caller passed, and the terms of what it got back
ArgAddrs ==
    {call.terms1[i] : i \in 1..Len(call.terms1)}
    \cup {call.terms2[i] : i \in 1..Len(call.terms2)}
    \cup FractionAddrs(<<call.f1, call.f2>> \o call.product
                       \o Flatten(call.equation))

ResultAddrs == FractionAddrs(res.fracs)

\* the caller writes a coefficient, or exponents, into the term at a
Write(a, next) ==
    /\ \E t \in {[heap[a] EXCEPT !.coeff = Int2Num(999)],
                 [heap[a] EXCEPT !.hasVar = TRUE, !.var = <<<<"x", 9>>>>]} :
           heap' = [heap EXCEPT ![a] = t]
    /\ pc' = next
    /\ UNCHANGED <<heap0, world, call, res>>

MutateCallerTerm ==
    /\ pc = "returned"
    /\ res.fracs # <<>>
    /\ \E a \in {world.P[i] : i \in 1..Len(world.P)}
               \cup {world.Q[i] : i \in 1..Len(world.Q)} :
           Write(a, "callerMutated")

MutateResultTerm ==
    /\ pc = "returned"
    /\ \E a \in ResultAddrs : Write(a, "resultMutated")

Next ==
    \/ CreateFraction
    \/ EvaluateTerm
    \/ EvaluatePolynomial
    \/ EvaluateFraction
    \/ EvaluateProduct
    \/ EvaluateEquation
    \/ IntegrateTerm
    \/ IntegratePolynomial
    \/ IntegrateFraction
    \/ DefiniteIntegrateTerm
    \/ DefiniteIntegratePolynomial
    \/ DefiniteIntegrateFraction
    \/ NumericalIntegrateFraction
    \/ DifferentiateTerm
    \/ DifferentiatePolynomial
    \/ DifferentiateAnyFraction
    \/ AddPolynomials
    \/ SubtractPolynomials
    \/ MultiplyTerms
    \/ MultiplyPolynomials
    \/ MultiplyPolynomialByConstant
    \/ SimplifyPolynomial
    \/ SimplifyFraction
    \/ SimplifyProduct
    \/ SimplifyEquation
    \/ ExpandFractions
    \/ ExpandProduct
    \/ MutateCallerTerm
    \/ MutateResultTerm

Spec == Init /\ [][Next]_vars

\* C8: createFraction deep-copies its inputs: whatever the caller later
\* writes into the terms it passed (coefficients or exponents), the terms of
\* the constructed fraction and its value stay what they were at construction.
C8_CreateFractionCopies ==
    (pc \in {"returned", "callerMutated"} /\ call.op = "createFraction")
    => LET made == res.fracs[1]
           given == call.f1
       IN  /\ Deref(heap, made.numi) = Deref(heap0, given.numi)
           /\ Deref(heap, made.deno.terms) = Deref(heap0, given.deno.terms)
           /\ made.deno.n = given.deno.n
           /\ \A values \in Bindings :
                  evaluateFraction(heap, made, values) =
                      evaluateFraction(heap0, given, values)

\* the caller has written into a term it had passed to createFraction
C8_Witness ==
    /\ pc = "callerMutated"
    /\ call.op = "createFraction"
    /\ call.f1.deno.tag # "number"
    /\ \E a \in FractionAddrs(<<call.f1>>) : heap[a] # heap0[a]

TransformingOps ==
    {"addPolynomials", "subtractPolynomials", "multiplyPolynomials",
     "simplifyPolynomial", "simplifyFraction", "differentiateFraction",
     "integrateFraction", "expandFractions", "expandProduct"}

\* C9: no result of a transforming operation holds a term object that an
\* argument holds, so a write to a term of the result changes no argument.
C9_NoAliasing ==
    (pc \in {"returned", "resultMutated"} /\ call.op \in TransformingOps)
    => /\ ResultAddrs \cap ArgAddrs = {}
       /\ \A a \in ArgAddrs : heap[a] = heap0[a]

\* C10: no operation writes to its arguments: when a call has returned or
\* thrown, every term object that existed when it was made is what it was.
C10_ArgumentsUnchanged ==
    pc = "returned"
    => /\ Len(heap) >= Len(heap0)
       /\ \A a \in 1..Len(heap0) : heap[a] = heap0[a]

\* simplifyPolynomial has merged two like terms of its argument
C10_Witness ==
    /\ pc = "returned"
    /\ call.op = "simplifyPolynomial"
    /\ Len(call.terms1) = 2
    /\ Len(res.fracs[1].numi) = 1
    /\ heap[res.fracs[1].numi[1]].coeff # heap[call.terms1[1]].coeff

\* ------------------------------------------------------------------------
\* Single terms: integration, differentiation of the integral, definite
\* integration
\* ------------------------------------------------------------------------
\* terms with an exponent 0 written out, as createTerm(c, {x: 0}) builds them
ZeroExpTerms ==
    {Term(c, TRUE, <<<<"x", 0>>>>) : c \in Coeffs}
    \cup {Term(c, TRUE, <<<<"x", 0>>, <<"y", MaxExp>>>>) : c \in Coeffs}

InitTerm ==
    \E t \in Terms \cup EmptyVarTerms \cup ZeroExpTerms
                \cup {Term(One, TRUE, <<<<"x", -1>>>>),
                      Term(Int2Num(3), TRUE, <<<<"x", 2>>>>),
                      Term(Int2Num(3), TRUE, <<<<"x", 2>>, <<"y", 2>>>>)},
       q \in PolysOver({Term(Int2Num(MaxCoeff), TRUE, <<<<"y", 1>>>>),
                        Term(Int2Num(-1), TRUE,
                             <<<<"y", 1>>, <<"x", MaxExp>>>>)}, 1) :
        InitWorld(<<t>>, q)

\* the caller differentiates the integral it got back, in the same variable;
\* heap0 stays the heap from before the integration
DifferentiateIntegrated ==
    /\ pc = "returned"
    /\ call.op = "integrateTerm"
    /\ res.err = "none"
    /\ LET r == differentiateTerm(heap, res.fracs[1].numi[1], call.indvar)
       IN  /\ pc' = "returned2"
           /\ call' = [call EXCEPT !.op = "differentiateTerm"]
           /\ res' = TermResult(r)
           /\ heap' = r.h
           /\ UNCHANGED <<heap0, world>>

NextTerm ==
    \/ IntegrateTerm
    \/ DifferentiateIntegrated
    \/ DefiniteIntegrateTerm
    \/ DifferentiateTerm
    \/ MultiplyTerms

SpecTerm == InitTerm /\ [][NextTerm]_vars

\* the exponent mapping of a term, a variable of exponent 0 being omitted
Exponents(t) == {e \in Mapping(t) : e[2] # 0}

\* C11: for a term t with non-negative integer exponents and any variable v,
\* differentiateTerm(integrateTerm(t, v), v) has t's exponent mapping and
\* t's coefficient, and so evaluates as t does at every binding.
C11_PowerRuleRoundTrip ==
    (/\ pc = "returned2"
     /\ call.op = "differentiateTerm"
     /\ \A e \in Mapping(heap0[call.terms1[1]]) : e[2] >= 0)
    => /\ res.err = "none"
       /\ Exponents(heap[res.fracs[1].numi[1]])
              = Exponents(heap0[call.terms1[1]])
       /\ heap[res.fracs[1].numi[1]].coeff = heap0[call.terms1[1]].coeff
       /\ \A values \in FullBindings :
              evaluateTerm(heap, res.fracs[1].numi[1], values)
                  = evaluateTerm(heap0, call.terms1[1], values)

\* a round trip through the largest power, with a second variable in the term
C11_Witness ==
    /\ pc = "returned2"
    /\ call.op = "differentiateTerm"
    /\ res.err = "none"
    /\ Len(heap0[call.terms1[1]].var) = 2
    /\ PowerOf(heap0[call.terms1[1]], call.indvar) = MaxExp
    /\ heap0[call.terms1[1]].coeff = Int2Num(MaxCoeff)

\* ------------------------------------------------------------------------
\* Fractions: integration, simplification, numerical integration
\* ------------------------------------------------------------------------
FracTerms ==
    {Term(One, FALSE, <<>>),
     Term(One, TRUE, <<<<"x", 1>>>>),
     Term(Int2Num(6), TRUE, <<<<"x", 2>>>>),
     Term(Int2Num(9), TRUE, <<<<"x", 1>>>>),
     Term(Int2Num(-9), TRUE, <<<<"x", 1>>>>),
     Term(Int2Num(-MaxCoeff), TRUE, <<<<"x", MaxExp>>, <<"y", 1>>>>),
     Term(One, TRUE, <<<<"x", -1>>>>)}

InitFrac ==
    \E p \in PolysOver(FracTerms, MaxTerms), q \in PolysOver(FracTerms, 1) :
        InitWorld(p, q)

NextFrac ==
    \/ IntegrateFraction
    \/ SimplifyFraction
    \/ NumericalIntegrateFraction
    \/ DifferentiateFraction

SpecFrac == InitFrac /\ [][NextFrac]_vars

\* C12: integrateFraction on a fraction with a polynomial denominator fails
\* with UnsupportedIntegral and returns no fraction, whatever the numerator
\* and the variable; with a scalar denominator it returns the numerator
\* integrated term by term (coefficient c/(n+1), exponent n+1) over the same
\* scalar, the failure of a term's integration being the call's failure.
C12_IntegrateFraction ==
    (pc = "returned" /\ call.op = "integrateFraction")
    => IF ~hasSimpleDenominator(call.f1)
       THEN res.err = "UnsupportedIntegral" /\ res.fracs = <<>>
       ELSE LET numi == Deref(heap0, call.f1.numi)
                v == call.indvar
            IN  IF \E i \in 1..Len(numi) : PowerOf(numi[i], v) = -1
                THEN res.err = "LogarithmicIntegral" /\ res.fracs = <<>>
                ELSE /\ res.err = "none"
                     /\ res.fracs[1].deno = call.f1.deno
                     /\ Len(res.fracs[1].numi) = Len(numi)
                     /\ \A i \in 1..Len(numi) :
                            heap[res.fracs[1].numi[i]] =
                                Term(NDiv(numi[i].coeff,
                                          Int2Num(PowerOf(numi[i], v) + 1)),
                                     TRUE,
                                     Put(numi[i].var, v, PowerOf(numi[i], v) + 1))

\* the integral of 1/x: the numerator is the derivative of the denominator
C12_Witness ==
    /\ pc = "returned"
    /\ call.op = "integrateFraction"
    /\ call.indvar = "x"
    /\ ~hasSimpleDenominator(call.f1)
    /\ Deref(heap0, call.f1.numi) = <<Term(One, FALSE, <<>>)>>
    /\ Deref(heap0, call.f1.deno.terms) = <<Term(One, TRUE, <<<<"x", 1>>>>)>>

\* the greatest common divisor of a set of integers, 1 when all are 0
GcdOf(S) ==
    IF S \subseteq {0} THEN 1
    ELSE LET abs == {IF n < 0 THEN -n ELSE n : n \in S}
             max == CHOOSE m \in abs : \A n \in abs : n <= m
         IN  CHOOSE g \in 1..max :
                 /\ \A n \in S : n % g = 0
                 /\ \A k \in g + 1..max : \E n \in S : n % k # 0

\* the fraction out in heap h is the simplified numerator simp over the
\* scalar d, both divided by their greatest common divisor, and is in lowest
\* terms
GcdReduced(simp, d, h, out) ==
    LET cs == {simp.h[simp.r[i]].coeff[1] : i \in 1..Len(simp.r)}
    IN  /\ hasSimpleDenominator(out)
        /\ out.deno.n = Int2Num(d \div GcdOf(cs \cup {d}))
        /\ Len(out.numi) = Len(simp.r)
        /\ \A i \in 1..Len(simp.r) :
               h[out.numi[i]]
                   = [simp.h[simp.r[i]] EXCEPT
                          !.coeff = Int2Num(@[1] \div GcdOf(cs \cup {d}))]
        /\ GcdOf({h[out.numi[i]].coeff[1] : i \in 1..Len(out.numi)}
                 \cup {out.deno.n[1]}) = 1

\* C14 as stated: simplifyFraction divides the simplified numerator
\* coefficients and the scalar denominator of every fraction by their gcd, so
\* that afterwards their gcd is 1.
C14_GcdReductionAnyNumerator ==
    (pc = "returned" /\ call.op = "simplifyFraction"
     /\ hasSimpleDenominator(call.f1))
    => /\ res.err = "none"
       /\ GcdReduced(simplifyPolynomial(heap0, call.f1.numi),
                     call.f1.deno.n[1], heap, res.fracs[1])

\* C14 (amended): when the simplified numerator has at least one term,
\* simplifyFraction divides its coefficients and the scalar denominator by
\* their gcd g (leaving them unchanged when g = 1), so that afterwards their
\* gcd is 1; when the simplified numerator is empty the denominator is
\* returned unchanged.
C14_GcdReduction ==
    (pc = "returned" /\ call.op = "simplifyFraction"
     /\ hasSimpleDenominator(call.f1))
    => /\ res.err = "none"
       /\ IF simplifyPolynomial(heap0, call.f1.numi).r # <<>>
          THEN GcdReduced(simplifyPolynomial(heap0, call.f1.numi),
                          call.f1.deno.n[1], heap, res.fracs[1])
          ELSE res.fracs[1] = Fraction(<<>>, call.f1.deno)

\* (6x^2 + 9x)/3 has been simplified to (2x^2 + 3x)/1
C14_Witness ==
    /\ pc = "returned"
    /\ call.op = "simplifyFraction"
    /\ Deref(heap0, call.f1.numi)
           = <<Term(Int2Num(6), TRUE, <<<<"x", 2>>>>),
               Term(Int2Num(9), TRUE, <<<<"x", 1>>>>)>>
    /\ call.f1.deno = Scalar(Int2Num(3))
    /\ Deref(heap, res.fracs[1].numi)
           = <<Term(Int2Num(2), TRUE, <<<<"x", 2>>>>),
               Term(Int2Num(3), TRUE, <<<<"x", 1>>>>)>>
    /\ res.fracs[1].deno = Scalar(One)

\* C15: for a term t = c * v^n * (other variables) with exponents >= 0,
\* definiteIntegrateTerm(t, lower, upper, v) returns a term with coefficient
\* (c/(n+1)) * (upper^(n+1) - lower^(n+1)), without v in its exponent mapping
\* and with every other variable at its exponent.
C15_DefiniteIntegrateTerm ==
    (/\ pc = "returned"
     /\ call.op = "definiteIntegrateTerm"
     /\ \A e \in Mapping(heap0[call.terms1[1]]) : e[2] >= 0)
    => /\ res.err = "none"
       /\ heap[res.fracs[1].numi[1]].coeff
              = NMul(NDiv(heap0[call.terms1[1]].coeff,
                          Int2Num(PowerOf(heap0[call.terms1[1]], call.indvar)
                                  + 1)),
                     NSub(NPow(call.upper,
                               PowerOf(heap0[call.terms1[1]], call.indvar) + 1),
                          NPow(call.lower,
                               PowerOf(heap0[call.terms1[1]], call.indvar) + 1)))
       /\ Mapping(heap[res.fracs[1].numi[1]])
              = {e \in Mapping(heap0[call.terms1[1]]) : e[1] # call.indvar}
       /\ heap[res.fracs[1].numi[1]].hasVar
              = (heap[res.fracs[1].numi[1]].var # <<>>)

\* the definite integral of 3x^2y^2 over [0,2] in x is 8y^2
C15_Witness ==
    /\ pc = "returned"
    /\ call.op = "definiteIntegrateTerm"
    /\ call.indvar = "x"
    /\ call.lower = Zero
    /\ call.upper = Int2Num(2)
    /\ heap0[call.terms1[1]]
           = Term(Int2Num(3), TRUE, <<<<"x", 2>>, <<"y", 2>>>>)
    /\ heap[res.fracs[1].numi[1]] = Term(Int2Num(8), TRUE, <<<<"y", 2>>>>)

\* the products of every term of terms1 with every term of terms2, by
\* multiplyTerms
CrossTerms(h, terms1, terms2) ==
    [n \in 1..Len(terms1) * Len(terms2) |->
        Then(multiplyTerms(h, terms1[((n - 1) \div Len(terms2)) + 1],
                           terms2[((n - 1) % Len(terms2)) + 1]),
             LAMBDA m : m.h[m.r])]

\* the sum of the coefficients of the terms of ts that have the variables of t
CoeffOfLike(ts, t) ==
    Fold(LAMBDA acc, u : IF u.var = t.var /\ u.hasVar = t.hasVar
                          THEN NAdd(acc, u.coeff) ELSE acc,
         Zero, ts)

\* out is ts with like terms merged and zero terms dropped, over 1
SimplifiedOver1(h, out, ts) ==
    /\ out.deno = Scalar(One)
    /\ \A k \in 1..Len(out.numi) :
           /\ h[out.numi[k]].coeff = CoeffOfLike(ts, h[out.numi[k]])
           /\ h[out.numi[k]].coeff # Zero
           /\ \A l \in 1..Len(out.numi) :
                  (h[out.numi[l]].var = h[out.numi[k]].var
                   /\ h[out.numi[l]].hasVar = h[out.numi[k]].hasVar) => l = k
    /\ \A n \in 1..Len(ts) :
           CoeffOfLike(ts, ts[n]) # Zero
           => \E k \in 1..Len(out.numi) :
                  /\ h[out.numi[k]].var = ts[n].var
                  /\ h[out.numi[k]].hasVar = ts[n].hasVar

SimpsonValue(h, f, lower, hh, v, n) ==
    NMul(NDiv(hh, Int2Num(3)),
         Fold(LAMBDA acc, i :
                  NAdd(acc,
                       NMul(Int2Num(IF i = 0 \/ i = n THEN 1
                                    ELSE IF i % 2 = 1 THEN 4 ELSE 2),
                            FractionValue(h, f,
                                          [w \in {v} |->
                                              NAdd(lower,
                                                   NMul(Int2Num(i), hh))]))),
              Zero, [k \in 1..n + 1 |-> k - 1]))

DerivedFactorValue(h, product, v, values, i) ==
    Fold(LAMBDA acc, j :
             NMul(acc,
                  IF j = i
                  THEN Then(differentiateFraction(h, product[j], v),
                            LAMBDA d : FractionValue(d.h, d.r, values))
                  ELSE FractionValue(h, product[j], values)),
         One, [j \in 1..Len(product) |-> j])

PowerRule(t, v) ==
    Term(NMul(t.coeff, Int2Num(PowerOf(t, v))),
         PowerOf(t, v) # 1 \/ Len(t.var) > 1,
         IF PowerOf(t, v) = 1 THEN Delete(t.var, v)
         ELSE Put(t.var, v, PowerOf(t, v) - 1))

C21_DifferentiateTerm ==
    (pc = "returned" /\ call.op = "differentiateTerm")
    => /\ res.err = "none"
       /\ (/\ call.indvar \in Keys(heap0[call.terms1[1]].var)
           /\ PowerOf(heap0[call.terms1[1]], call.indvar) >= 1)
          => /\ heap[res.fracs[1].numi[1]].coeff
                    = NMul(heap0[call.terms1[1]].coeff,
                           Int2Num(PowerOf(heap0[call.terms1[1]], call.indvar)))
             /\ Mapping(heap[res.fracs[1].numi[1]])
                    = {e \in Mapping(heap0[call.terms1[1]]) :
                           e[1] # call.indvar}
                      \cup {<<call.indvar, n>> :
                                n \in {PowerOf(heap0[call.terms1[1]],
                                               call.indvar) - 1} \ {0}}
             /\ heap[res.fracs[1].numi[1]].hasVar
                    = (heap[res.fracs[1].numi[1]].var # <<>>)
       /\ call.indvar \notin Keys(heap0[call.terms1[1]].var)
          => heap[res.fracs[1].numi[1]] = Term(Zero, FALSE, <<>>)

\* 3x^2y^2 has been differentiated in x to 6xy^2
C21_Witness ==
    /\ pc = "returned"
    /\ call.op = "differentiateTerm"
    /\ call.indvar = "x"
    /\ heap0[call.terms1[1]]
           = Term(Int2Num(3), TRUE, <<<<"x", 2>>, <<"y", 2>>>>)
    /\ heap[res.fracs[1].numi[1]]
           = Term(Int2Num(6), TRUE, <<<<"x", 1>>, <<"y", 2>>>>)

\* C22: differentiatePolynomial(p, v) returns, in their order, the terms
\* differentiateTerm gives for the terms of p, without those of coefficient
\* 0: no term of the result has coefficient 0, like terms are not merged,
\* and the result is empty when no term of p has v.
C22_DifferentiatePolynomial ==
    (pc = "returned" /\ call.op = "differentiatePolynomial")
    => /\ res.err = "none"
       /\ Deref(heap, res.fracs[1].numi)
              = SelectSeq([i \in 1..Len(call.terms1) |->
                              Then(differentiateTerm(heap0, call.terms1[i],
                                                     call.indvar),
                                   LAMBDA d : d.h[d.r])],
                          LAMBDA t : t.coeff # Zero)
       /\ \A i \in 1..Len(res.fracs[1].numi) :
              heap[res.fracs[1].numi[i]].coeff # Zero
       /\ (\A i \in 1..Len(call.terms1) :
               call.indvar \notin Keys(heap0[call.terms1[i]].var))
          => res.fracs[1].numi = <<>>

\* a polynomial of two equal terms has been differentiated to two equal
\* terms
C22_Witness ==
    /\ pc = "returned"
    /\ call.op = "differentiatePolynomial"
    /\ Len(call.terms1) = 2
    /\ call.indvar \in Keys(heap0[call.terms1[2]].var)
    /\ heap0[call.terms1[1]] = heap0[call.terms1[2]]
    /\ Len(res.fracs[1].numi) = 2
    /\ heap[res.fracs[1].numi[1]] = heap[res.fracs[1].numi[2]]

\* r is the power-rule integral of the term t in v: coefficient c/(n+1),
\* exponent n+1 for v, the other variables as in t
IntegralOf(r, t, v) ==
    /\ r.coeff = NDiv(t.coeff, Int2Num(PowerOf(t, v) + 1))
    /\ Mapping(r) = {e \in Mapping(t) : e[1] # v}
                        \cup {<<v, PowerOf(t, v) + 1>>}
    /\ r.hasVar

\* C23: integrateTerm(t, v) fails with LogarithmicIntegral when the exponent
\* n of v in t (0 if v is not in t) is -1, and otherwise returns the term
\* with coefficient c/(n+1), exponent n+1 for v and the other variables
\* unchanged; integratePolynomial fails in the same way, returning nothing,
\* when one of its terms does, and otherwise integrates term by term.
C23_IntegrateTerm ==
    (pc = "returned" /\ call.op \in {"integrateTerm", "integratePolynomial"})
    => IF \E i \in 1..Len(call.terms1) :
              PowerOf(heap0[call.terms1[i]], call.indvar) = -1
       THEN res.err = "LogarithmicIntegral" /\ res.fracs = <<>>
       ELSE /\ res.err = "none"
            /\ Len(res.fracs[1].numi) = Len(call.terms1)
            /\ \A i \in 1..Len(call.terms1) :
                   IntegralOf(heap[res.fracs[1].numi[i]],
                              heap0[call.terms1[i]], call.indvar)

\* integratePolynomial has failed on a polynomial whose first term has an
\* integral and whose second term is 1/x
C23_Witness ==
    /\ pc = "returned"
    /\ call.op = "integratePolynomial"
    /\ call.indvar = "x"
    /\ Len(call.terms1) = 2
    /\ PowerOf(heap0[call.terms1[1]], "x") # -1
    /\ PowerOf(heap0[call.terms1[2]], "x") = -1
    /\ res.err = "LogarithmicIntegral"

\* r is the product of the terms a and b: the coefficients multiplied, the
\* variables of both with the exponents of a variable of both added, and no
\* mapping when neither has a variable
ProductOf(r, a, b) ==
    /\ r.coeff = NMul(a.coeff, b.coeff)
    /\ Keys(r.var) = Keys(a.var) \cup Keys(b.var)
    /\ \A v \in Keys(r.var) : Get(r.var, v) = PowerOf(a, v) + PowerOf(b, v)
    /\ Len(r.var) = Cardinality(Keys(r.var))
    /\ r.hasVar = (a.var # <<>> \/ b.var # <<>>)

\* C24: multiplyTerms(a, b) returns the term whose coefficient is the product
\* of the coefficients and whose mapping is the union of the mappings with
\* the exponents of shared variables added, absent when neither term has a
\* variable; multiplyTerms(b, a) is the same term (same coefficient, same
\* exponent of every variable).
C24_MultiplyTerms ==
    (pc = "returned" /\ call.op = "multiplyTerms")
    => /\ res.err = "none"
       /\ ProductOf(heap[res.fracs[1].numi[1]], heap0[call.terms1[1]],
                    heap0[call.terms2[1]])
       /\ Then(multiplyTerms(heap0, call.terms2[1], call.terms1[1]),
               LAMBDA m :
                   /\ m.h[m.r].coeff = heap[res.fracs[1].numi[1]].coeff
                   /\ Mapping(m.h[m.r]) = Mapping(heap[res.fracs[1].numi[1]])
                   /\ m.h[m.r].hasVar = heap[res.fracs[1].numi[1]].hasVar)

\* 3x^2y^2 has been multiplied by -y*x^MaxExp, which share x and y
C24_Witness ==
    /\ pc = "returned"
    /\ call.op = "multiplyTerms"
    /\ heap0[call.terms1[1]]
           = Term(Int2Num(3), TRUE, <<<<"x", 2>>, <<"y", 2>>>>)
    /\ heap0[call.terms2[1]]
           = Term(Int2Num(-1), TRUE, <<<<"y", 1>>, <<"x", MaxExp>>>>)
    /\ heap[res.fracs[1].numi[1]]
           = Term(Int2Num(-3), TRUE, <<<<"x", 2 + MaxExp>>, <<"y", 3>>>>)

\* the place where the variable signature key first occurs in the terms ts
FirstOccurrence(ts, key) ==
    CHOOSE i \in 1..Len(ts) :
        /\ varKey(ts[i]) = key
        /\ \A j \in 1..(i - 1) : varKey(ts[j]) # key

\* C25: the terms simplifyPolynomial returns are in order of non-increasing
\* total degree (the sum of a term's exponents, 0 for a constant), and terms
\* of equal total degree are in the order in which their variable signature
\* (the key the terms are grouped by) first occurred in the input.
C25_DegreeOrder ==
    (pc = "returned" /\ call.op = "simplifyPolynomial")
    => LET in == Deref(heap0, call.terms1)
           out == Deref(heap, res.fracs[1].numi)
       IN  \A i, j \in 1..Len(out) :
               i < j =>
                   /\ SumPowers(out[i].var) >= SumPowers(out[j].var)
                   /\ SumPowers(out[i].var) = SumPowers(out[j].var)
                      => FirstOccurrence(in, varKey(out[i]))
                             < FirstOccurrence(in, varKey(out[j]))

\* y + xy + x has been simplified to xy + y + x
C25_Witness ==
    /\ pc = "returned"
    /\ call.op = "simplifyPolynomial"
    /\ Deref(heap0, call.terms1)
           = <<Term(One, TRUE, <<<<"y", 1>>>>),
               Term(One, TRUE, <<<<"x", 1>>, <<"y", 1>>>>),
               Term(One, TRUE, <<<<"x", 1>>>>)>>
    /\ Deref(heap, res.fracs[1].numi)
           = <<Term(One, TRUE, <<<<"x", 1>>, <<"y", 1>>>>),
               Term(One, TRUE, <<<<"y", 1>>>>),
               Term(One, TRUE, <<<<"x", 1>>>>)>>

\* the sum of the coefficients of the terms of ts with the signature key
RECURSIVE SumOfGroup(_, _)
SumOfGroup(ts, key) ==
    IF ts = <<>> THEN Zero
    ELSE NAdd(IF varKey(Head(ts)) = key THEN Head(ts).coeff ELSE Zero,
              SumOfGroup(Tail(ts), key))

C27_EmptyMappingIsConstant ==
    (pc = "returned" /\ call.op = "simplifyPolynomial")
    => LET in == Deref(heap0, call.terms1)
           out == Deref(heap, res.fracs[1].numi)
           constants == {i \in 1..Len(out) : out[i].var = <<>>}
       IN  /\ Cardinality(constants) <= 1
           /\ \A i \in constants : out[i].coeff = SumCoeffs(in, {})

\* ------------------------------------------------------------------------
\* Sequences of operations: the caller passes what one call returned to the
\* next call
\* ------------------------------------------------------------------------
\* the caller goes on while it holds at most MaxHeap term objects, of total
\* degree at most MaxChainDegree and with coefficients of numerator and
\* denominator at most MaxChainCoeff
MaxHeap == 3

MaxChainDegree == 4

MaxChainCoeff == 16

\* the terms the caller starts from: all exponents are positive
ChainTerms ==
    {Term(One, FALSE, <<>>),
     Term(Int2Num(MaxCoeff), TRUE, <<<<"x", MaxExp>>>>),
     Term(Int2Num(-1), TRUE, <<<<"x", 1>>, <<"y", 1>>>>)}

InitChain ==
    \E p \in PolysOver(ChainTerms, 1), q \in PolysOver(ChainTerms, 1) :
        InitWorld(p, q)

\* the caller takes the returned numerator for P and a returned polynomial
\* denominator for Q; every term object stays available to the term functions
Continue ==
    /\ pc = "returned"
    /\ res.err = "none"
    /\ res.fracs # <<>>
    /\ Len(heap) <= MaxHeap
    /\ \A a \in 1..Len(heap) :
           /\ SumPowers(heap[a].var) <= MaxChainDegree
           /\ Abs(heap[a].coeff[1]) <= MaxChainCoeff
           /\ heap[a].coeff[2] <= MaxChainCoeff
    /\ pc' = "idle"
    /\ world' = [P |-> res.fracs[1].numi,
                 Q |-> IF hasSimpleDenominator(res.fracs[1]) THEN world.Q
                       ELSE res.fracs[1].deno.terms]
    /\ call' = Call("none")
    /\ res' = NoResult
    /\ heap0' = heap
    /\ UNCHANGED heap

NextChain ==
    \/ MultiplyTerms
    \/ DifferentiateTerm
    \/ IntegrateTerm
    \/ DefiniteIntegrateTerm
    \/ MultiplyPolynomials
    \/ SimplifyPolynomial
    \/ DifferentiateFraction
    \/ ExpandFractions
    \/ Continue

SpecChain == InitChain /\ [][NextChain]_vars

\* C28: starting from terms whose exponents are all positive, every term built
\* by any sequence of multiplyTerms, differentiateTerm, integrateTerm,
\* definiteIntegrateTerm, multiplyPolynomials, simplifyPolynomial,
\* differentiateFraction and expandFractions has only positive exponents: no
\* variable is stored with the exponent 0 or a negative exponent.
C28_PositiveExponents ==
    \A a \in 1..Len(heap) :
        /\ heap[a].hasVar = (heap[a].var # <<>>)
        /\ \A i \in 1..Len(heap[a].var) : heap[a].var[i][2] > 0

\* a term x built by an earlier call has been differentiated in x, and the
\* result stores no variable
C28_Witness ==
    /\ pc = "returned"
    /\ call.op = "differentiateTerm"
    /\ call.indvar = "x"
    /\ call.terms1[1] > 2
    /\ heap0[call.terms1[1]].var = <<<<"x", 1>>>>
    /\ heap[res.fracs[1].numi[1]].var = <<>>
    /\ ~heap[res.fracs[1].numi[1]].hasVar

\* the returned terms are the definiteIntegrateTerm images of the terms, one
\* for one and in order; a term that cannot be integrated fails the call
RECURSIVE TermwiseDefinite(_, _, _)
TermwiseDefinite(terms, out, k) ==
    IF k > Len(terms) THEN res.err = "none" /\ Len(out) = Len(terms)
    ELSE LET t == definiteIntegrateTerm(heap0, terms[k], call.lower,
                                        call.upper, call.indvar)
         IN  IF t.err # "none" THEN res.err = t.err
             ELSE /\ res.err = "none"
                     => k <= Len(out) /\ heap[out[k]] = t.h[t.r]
                  /\ TermwiseDefinite(terms, out, k + 1)

\* C29: definiteIntegrateFraction dispatches on the denominator.  With a
\* scalar denominator it returns the definiteIntegrateTerm images of the
\* numerator's terms over the unchanged scalar denominator.  With a polynomial
\* denominator it returns numericalIntegrateFraction(fraction, lower, upper,
\* v) with the default step count, and that result is one term with no
\* variables over the scalar denominator 1.
C29_DefiniteIntegrateFraction ==
    (pc = "returned" /\ call.op = "definiteIntegrateFraction")
    => IF hasSimpleDenominator(call.f1)
       THEN /\ TermwiseDefinite(call.f1.numi,
                                IF res.fracs = <<>> THEN <<>>
                                ELSE res.fracs[1].numi, 1)
            /\ res.err = "none" => res.fracs[1].deno = call.f1.deno
       ELSE LET n == numericalIntegrateFraction(heap0, call.f1, call.lower,
                                                call.upper, call.indvar,
                                                DefaultNumSteps)
            IN  /\ res.err = n.err
                /\ res.err = "none"
                   => /\ res.fracs[1].deno = Scalar(One)
                      /\ Len(res.fracs[1].numi) = 1
                      /\ heap[res.fracs[1].numi[1]] = n.h[n.r.numi[1]]
                      /\ ~heap[res.fracs[1].numi[1]].hasVar
                      /\ heap[res.fracs[1].numi[1]].var = <<>>

\* 1/(1) with a polynomial denominator has been integrated from 0 to
\* MaxValue: the result is the number MaxValue over 1
C29_Witness ==
    /\ pc = "returned"
    /\ call.op = "definiteIntegrateFraction"
    /\ ~hasSimpleDenominator(call.f1)
    /\ call.lower = Zero
    /\ call.upper = Int2Num(MaxValue)
    /\ res.err = "none"
    /\ res.fracs[1].deno = Scalar(One)
    /\ Deref(heap, res.fracs[1].numi) = <<Term(Int2Num(MaxValue), FALSE, <<>>)>>

\* ------------------------------------------------------------------------
\* Simplification of fractions with coefficients around the epsilon
\* ------------------------------------------------------------------------
\* terms with the coefficients 10^-11, -10^-11 and 1.2 * 10^-10
SmallTerms ==
    {Term(Scaled(Int2Num(c)), Len(vs) > 0, vs) :
         c \in {1, -1, 12}, vs \in {<<>>, <<<<"x", 1>>>>}}

InitSmall ==
    \E p \in PolysOver(FracTerms, MaxTerms) \cup PolysOver(SmallTerms, MaxTerms),
       q \in PolysOver(FracTerms, 1) :
        InitWorld(p, q)

SpecSmall == InitSmall /\ [][SimplifyFraction]_vars

\* the value of the denominator of the fraction f at the binding values
DenominatorValue(h, f, values) ==
    IF hasSimpleDenominator(f) THEN f.deno.n
    ELSE PolynomialValue(h, f.deno.terms, values)

\* simplifying the returned fraction again gives the same fraction
SimplifiedAgain ==
    Then(simplifyFraction(heap, res.fracs[1]),
         LAMBDA again :
             /\ Deref(again.h, again.r.numi) = Deref(heap, res.fracs[1].numi)
             /\ again.r.deno.tag = res.fracs[1].deno.tag
             /\ again.r.deno.n = res.fracs[1].deno.n
             /\ Deref(again.h, again.r.deno.terms)
                    = Deref(heap, res.fracs[1].deno.terms))

\* the returned fraction has the value of the argument at every binding at
\* which the argument's denominator is not 0
SameValue ==
    \A values \in [Vars -> Numbers] :
        DenominatorValue(heap0, call.f1, values) # Zero
        => FractionValue(heap, res.fracs[1], values)
               = FractionValue(heap0, call.f1, values)

\* every coefficient sum simplifyPolynomial forms for the terms ts is zero or
\* above the epsilon
NoSmallGroup(ts) ==
    \A k \in 1..Len(ts) :
        \/ SumOfGroup(ts, varKey(ts[k])) = Zero
        \/ AboveEpsilon(SumOfGroup(ts, varKey(ts[k])))

\* C30 as stated: simplifyFraction preserves the value of every fraction F:
\* at every binding at which the denominator of F is not 0,
\* simplifyFraction(F) evaluates to the value of F in exact arithmetic; the
\* denominator of the result is a scalar when that of F is and a polynomial
\* when that of F is; and simplifying the result again gives the same
\* fraction.
C30_SimplifyFractionPreservesValue ==
    (pc = "returned" /\ call.op = "simplifyFraction")
    => /\ res.err = "none"
       /\ res.fracs[1].deno.tag = call.f1.deno.tag
       /\ SameValue
       /\ SimplifiedAgain

\* C30, amended: the denominator tag is unchanged and simplifying again gives
\* the same fraction for every fraction F; the value is preserved, in exact
\* arithmetic and wherever the denominator of F is not 0, for every F in
\* which each coefficient sum that simplifyPolynomial forms (numerator and
\* polynomial denominator) is zero or larger than 1e-10 in absolute value.
C30_ValuePreservedAboveEpsilon ==
    (pc = "returned" /\ call.op = "simplifyFraction")
    => /\ res.err = "none"
       /\ res.fracs[1].deno.tag = call.f1.deno.tag
       /\ (/\ NoSmallGroup(Deref(heap0, call.f1.numi))
           /\ NoSmallGroup(Deref(heap0, call.f1.deno.terms)))
          => SameValue
       /\ SimplifiedAgain

\* (1.2e-10 x - 1e-11 x)/(x) has been simplified to (1.1e-10 x)/(x)
C30_Witness ==
    /\ pc = "returned"
    /\ call.op = "simplifyFraction"
    /\ Deref(heap0, call.f1.numi)
           = <<Term(Scaled(Int2Num(12)), TRUE, <<<<"x", 1>>>>),
               Term(Scaled(Int2Num(-1)), TRUE, <<<<"x", 1>>>>)>>
    /\ Deref(heap0, call.f1.deno.terms) = <<Term(One, TRUE, <<<<"x", 1>>>>)>>
    /\ Deref(heap, res.fracs[1].numi)
           = <<Term(Scaled(Int2Num(11)), TRUE, <<<<"x", 1>>>>)>>
    /\ Deref(heap, res.fracs[1].deno.terms) = <<Term(One, TRUE, <<<<"x", 1>>>>)>>

====
